---- MODULE Spec2Model ----
(***************************************************************************)
(* State-machine model of the AIrtScanner front end: the App component     *)
(* (reference image, style analysis, creative studio, render pipeline,     *)
(* history list, archive download), the ImageEditor component              *)
(* (conversational edit session over one history item), and geminiService  *)
(* (the lazily constructed client and its four operations).                *)
(*                                                                         *)
(* Conventions                                                             *)
(*  - A text is a sequence of tokens; the tokens " " and "\n" are           *)
(*    whitespace, every other token is a run of non-whitespace characters. *)
(*    The empty sequence is the empty string.  An absent optional field    *)
(*    (undefined) is also written <<>>: the code only tests such fields    *)
(*    for truthiness, and '' is falsy.                                     *)
(*  - A nullable value is a sequence of length 0 (null) or 1.              *)
(*  - One step of the model is one event handler, or one continuation of   *)
(*    an async handler after an await.  The continuation of handleSend on  *)
(*    success is split at its state updates (setCurrentImage, then         *)
(*    setMessages/setIsProcessing); no other handler runs in between.      *)
(*  - A handler whose only protection is an attribute of its button        *)
(*    (disabled, or not rendered) is guarded by that attribute.  Where the *)
(*    handler checks its input itself, the check is a branch of the        *)
(*    action and the action is enabled whatever the button shows.          *)
(*  - imageFile and copiedLogId of App are written but never read by the   *)
(*    handlers modelled here and are left out.                             *)
(***************************************************************************)
EXTENDS Integers, Sequences, FiniteSets, TLC

(* ------------------------------ bounds --------------------------------- *)
ClockStart == 9
MaxTicks == 1
MaxHistory == 2
MaxMessages == 7
MaxOrphans == 1
MaxAnalyses == 1
MaxCalls == 2
MaxBundle == 3

VARIABLES
  clock,              \* Date.now()
  apiKey,             \* geminiService: process.env.API_KEY is set
  ai,                 \* geminiService: the client handle, <<>> = not constructed
  constructed,        \* geminiService: number of GoogleGenAI objects constructed
  calls,              \* service operations called directly, awaiting generateContent
  ret,                \* outcome of the last direct service call that ended
  imageUrl,           \* App: reference image data URL, <<>> = null
  readers,            \* App: FileReaders whose onloadend has not fired yet
  analysisResult,     \* App: stored analysis, <<>> = null
  isLoading,          \* App: analysis in progress flag
  an,                 \* App: the running handleAnalyzeClick invocations
  userIdea,           \* App: free-text idea
  selectedModifiers,  \* App: selected style modifiers, in insertion order
  customModifier,     \* App: text of the custom style input
  generatedHistory,   \* App: history list, most recent first
  isGenerating,       \* App: render in progress flag
  error,              \* App: inline message, <<>> = null
  gen,                \* App: the running handleGenerateClick, <<>> = none
  download,           \* App: the archive built by handleDownloadAllZip, <<>> = none
  resultDisplay,      \* ResultDisplay: the version of the component in the build
  outputFormat,       \* ResultDisplay: selected output format
  clipboard,          \* ResultDisplay: text written to the clipboard, <<>> = none
  editingItem,        \* App: item the editor is open on, <<>> = null
  currentImage,       \* ImageEditor: active image
  inputValue,         \* ImageEditor: text of the input box
  isProcessing,       \* ImageEditor: edit in progress flag
  messages,           \* ImageEditor: chat log
  send,               \* ImageEditor: the running handleSend, <<>> = none
  orphans,            \* ids of the items whose editor was closed with its
                      \* handleSend still running
  lastOp              \* the last pipeline or session operation performed

clientVars == <<apiKey, ai, constructed>>
serviceVars == <<calls, ret>>
appVars == <<imageUrl, readers, analysisResult, isLoading, an, userIdea,
             selectedModifiers, customModifier, generatedHistory,
             isGenerating, error, gen, download>>
editorVars == <<currentImage, inputValue, isProcessing, messages, send>>
displayVars == <<resultDisplay, outputFormat, clipboard>>
vars == <<clock, clientVars, serviceVars, appVars, editingItem, editorVars,
          displayVars, orphans, lastOp>>

(* ------------------------------ texts ---------------------------------- *)
IsSpace(c) == c \in {" ", "\n"}

\* String.prototype.trim
RECURSIVE trim(_)
trim(s) ==
  IF s = <<>> THEN <<>>
  ELSE IF IsSpace(Head(s)) THEN trim(Tail(s))
  ELSE IF IsSpace(s[Len(s)]) THEN trim(SubSeq(s, 1, Len(s) - 1))
  ELSE s

\* Array.prototype.join over texts
RECURSIVE join(_, _)
join(xs, sep) ==
  IF xs = <<>> THEN <<>>
  ELSE IF Len(xs) = 1 THEN xs[1]
  ELSE xs[1] \o sep \o join(Tail(xs), sep)

\* String.prototype.split on a one-token separator
RECURSIVE split(_, _)
split(s, sep) ==
  IF \E i \in 1..Len(s) : s[i] = sep
  THEN LET i == CHOOSE k \in 1..Len(s) :
                  s[k] = sep /\ \A j \in 1..(k - 1) : s[j] # sep
       IN  <<SubSeq(s, 1, i - 1)>> \o split(SubSeq(s, i + 1, Len(s)), sep)
  ELSE <<s>>

\* Number.prototype.toString, decimal digits
RECURSIVE toString(_)
toString(n) ==
  LET d == <<"0", "1", "2", "3", "4", "5", "6", "7", "8", "9">>
  IN  IF n < 10 THEN <<d[n + 1]>> ELSE toString(n \div 10) \o <<d[(n % 10) + 1]>>

\* String.prototype.toLowerCase, on the words of the model's texts
toLowerCase(s) ==
  [i \in 1..Len(s) |->
     CASE s[i] = "Moody" -> "moody"
       [] s[i] = "Noir" -> "noir"
       [] s[i] = "Ink" -> "ink"
       [] OTHER -> s[i]]

(* ---------------------------- data URLs -------------------------------- *)
\* `data:${mime};base64,${bytes}`
DataUrl(mime, bytes) == <<"data", ":">> \o mime \o <<";", "base64", ",">> \o bytes

\* imageUrl.split(',')[1]
base64Data(url) == split(url, ",")[2]

\* imageUrl.split(',')[0].split(':')[1].split(';')[0]
mimeType(url) == split(split(split(url, ",")[1], ":")[2], ";")[1]

(* ------------------------------- JSON ---------------------------------- *)
\* JavaScript values as JSON.parse builds them; one record shape for all
JUndefined == [k |-> "undefined", s |-> <<>>, xs |-> <<>>]
JLit(tok) == [k |-> "lit", s |-> <<tok>>, xs |-> <<>>]
JNull == JLit("null")
JStr(text) == [k |-> "str", s |-> text, xs |-> <<>>]
JArr(elems) == [k |-> "arr", s |-> <<>>, xs |-> elems]
JMem(key, v) == [k |-> "mem", s |-> key, xs |-> <<v>>]
JObj(mems) == [k |-> "obj", s |-> <<>>, xs |-> mems]

\* the literal tokens of the model's texts: null, booleans, numbers
JsonLiterals == {"null", "true", "false", "0", "1", "42"}

\* property access v[key]; the last of several members with the same key wins
Get(v, key) ==
  IF v.k = "obj" /\ \E i \in 1..Len(v.xs) : v.xs[i].s = key
  THEN LET i == CHOOSE n \in 1..Len(v.xs) :
                  v.xs[n].s = key /\ \A m \in (n + 1)..Len(v.xs) : v.xs[m].s # key
       IN  v.xs[i].xs[1]
  ELSE JUndefined

\* truthiness of a value
Truthy(v) ==
  ~ \/ v.k = "undefined"
    \/ v.k = "lit" /\ v.s \in {<<"null">>, <<"false">>, <<"0">>}
    \/ v.k = "str" /\ v.s = <<>>

\* result of a parsing step: ok, the value, the tokens left
ParseFail == [ok |-> FALSE, val |-> JUndefined, rest |-> <<>>]
Parsed(v, rest) == [ok |-> TRUE, val |-> v, rest |-> rest]

RECURSIVE skipWs(_)
skipWs(ts) == IF ts # <<>> /\ IsSpace(Head(ts)) THEN skipWs(Tail(ts)) ELSE ts

\* the characters of a string literal, after its opening quote.  An escape
\* is the token "\\" followed by one of the tokens "\"", "\\", "n".
RECURSIVE parseChars(_, _)
parseChars(ts, acc) ==
  IF ts = <<>> THEN ParseFail
  ELSE IF Head(ts) = "\"" THEN Parsed(JStr(acc), Tail(ts))
  ELSE IF Head(ts) = "\n" THEN ParseFail
  ELSE IF Head(ts) = "\\"
  THEN IF Len(ts) >= 2 /\ ts[2] \in {"\"", "\\", "n"}
       THEN parseChars(SubSeq(ts, 3, Len(ts)),
                       Append(acc, IF ts[2] = "n" THEN "\n" ELSE ts[2]))
       ELSE ParseFail
  ELSE parseChars(Tail(ts), Append(acc, Head(ts)))

RECURSIVE parseValue(_)
RECURSIVE parseElements(_, _)
RECURSIVE parseMembers(_, _)

parseValue(ts0) ==
  LET ts == skipWs(ts0)
  IN  IF ts = <<>> THEN ParseFail
      ELSE IF Head(ts) = "\"" THEN parseChars(Tail(ts), <<>>)
      ELSE IF Head(ts) \in JsonLiterals THEN Parsed(JLit(Head(ts)), Tail(ts))
      ELSE IF Head(ts) = "["
      THEN IF skipWs(Tail(ts)) # <<>> /\ Head(skipWs(Tail(ts))) = "]"
           THEN Parsed(JArr(<<>>), Tail(skipWs(Tail(ts))))
           ELSE parseElements(Tail(ts), <<>>)
      ELSE IF Head(ts) = "{"
      THEN IF skipWs(Tail(ts)) # <<>> /\ Head(skipWs(Tail(ts))) = "}"
           THEN Parsed(JObj(<<>>), Tail(skipWs(Tail(ts))))
           ELSE parseMembers(Tail(ts), <<>>)
      ELSE ParseFail

parseElements(ts, acc) ==
  LET r == parseValue(ts)
      rest == skipWs(r.rest)
  IN  IF ~r.ok \/ rest = <<>> THEN ParseFail
      ELSE IF Head(rest) = "," THEN parseElements(Tail(rest), Append(acc, r.val))
      ELSE IF Head(rest) = "]" THEN Parsed(JArr(Append(acc, r.val)), Tail(rest))
      ELSE ParseFail

parseMembers(ts0, acc) ==
  LET ts == skipWs(ts0)
      key == IF ts # <<>> /\ Head(ts) = "\"" THEN parseChars(Tail(ts), <<>>)
             ELSE ParseFail
      colon == skipWs(key.rest)
      r == IF key.ok /\ colon # <<>> /\ Head(colon) = ":"
           THEN parseValue(Tail(colon)) ELSE ParseFail
      rest == skipWs(r.rest)
  IN  IF ~r.ok \/ rest = <<>> THEN ParseFail
      ELSE IF Head(rest) = ","
      THEN parseMembers(Tail(rest), Append(acc, JMem(key.val.s, r.val)))
      ELSE IF Head(rest) = "}"
      THEN Parsed(JObj(Append(acc, JMem(key.val.s, r.val))), Tail(rest))
      ELSE ParseFail

\* JSON.parse: ok = FALSE stands for the SyntaxError it throws
JSONparse(text) ==
  LET r == parseValue(text)
  IN  IF r.ok /\ skipWs(r.rest) = <<>> THEN r ELSE ParseFail

(* ----------------------- inputs and remote answers --------------------- *)
\* a string literal of a JSON text
Quoted(text) == <<"\"">> \o text \o <<"\"">>

\* the keys of an object, each once, in the order of their first occurrence
RECURSIVE ownKeys(_, _)
ownKeys(mems, acc) ==
  IF mems = <<>> THEN acc
  ELSE ownKeys(Tail(mems),
               IF \E i \in 1..Len(acc) : acc[i] = Head(mems).s THEN acc
               ELSE Append(acc, Head(mems).s))

\* a character as JSON.stringify writes it between quotes
escapeChar(c) ==
  CASE c = "\"" -> <<"\\", "\"">>
    [] c = "\\" -> <<"\\", "\\">>
    [] c = "\n" -> <<"\\", "n">>
    [] OTHER -> <<c>>

\* faulty variant of escape: the characters are written as they are
escape_Raw(s) == s

\* the characters of a string as JSON.stringify writes them between quotes
escape(s) == join([i \in 1..Len(s) |-> escapeChar(s[i])], <<>>)

\* the gap of JSON.stringify(value, null, 2) at nesting depth d
indent(d) == [i \in 1..(2 * d) |-> " "]

\* JSON.stringify(value, null, 2) of a value at nesting depth d: members
\* whose value is undefined are left out, undefined elements are null
RECURSIVE stringify(_, _)
stringify(v, d) ==
  CASE v.k = "str" -> Quoted(escape(v.s))
    [] v.k = "lit" -> v.s
    [] v.k = "arr" ->
         IF v.xs = <<>> THEN <<"[", "]">>
         ELSE <<"[", "\n">>
                \o join([i \in 1..Len(v.xs) |->
                           indent(d + 1)
                             \o (IF v.xs[i].k = "undefined" THEN <<"null">>
                                 ELSE stringify(v.xs[i], d + 1))],
                        <<",", "\n">>)
                \o <<"\n">> \o indent(d) \o <<"]">>
    [] v.k = "obj" ->
         LET keys == SelectSeq(ownKeys(v.xs, <<>>),
                               LAMBDA key : Get(v, key).k # "undefined")
         IN  IF keys = <<>> THEN <<"{", "}">>
             ELSE <<"{", "\n">>
                    \o join([i \in 1..Len(keys) |->
                               indent(d + 1) \o Quoted(escape(keys[i]))
                                 \o <<":", " ">>
                                 \o stringify(Get(v, keys[i]), d + 1)],
                            <<",", "\n">>)
                    \o <<"\n">> \o indent(d) \o <<"}">>
    [] OTHER -> <<>>

JSONstringify(v) == stringify(v, 0)

\* files the user can pick as reference image
RefImages == {DataUrl(<<"image/jpeg">>, <<"r1">>)}
\* image payloads the remote model can answer with
ImageBytes == {<<"b1">>, <<"b2">>}
\* what the user can type as idea
IdeaTexts == {<<>>, <<"city">>}
\* what the user can type in the custom style input
ModifierTexts == {<<>>, <<" ", "Noir", " ">>, <<"Grain">>}
\* what the user can type in the editor's input box
InputTexts == {<<>>, <<" ">>, <<"fog">>, <<" ", "fog", " ">>}
\* response.text of the title call; <<>> is also the absent text
TitleTexts == {<<>>, <<" ">>, <<"Neon", " ", "Rain">>}
\* (excerpt of) STYLE_PRESETS
STYLE_PRESETS == <<<<"Noir">>>>

\* an analysis as the model answers it under responseSchema
AnalysisJson ==
  <<"{">> \o Quoted(<<"style">>) \o <<":">> \o Quoted(<<"Noir">>) \o <<",">>
    \o Quoted(<<"artist">>) \o <<":", " ">> \o Quoted(<<"Saul", " ", "Leiter">>) \o <<",">>
    \o Quoted(<<"techniques">>) \o <<":", "[">> \o Quoted(<<"Ink">>) \o <<",">>
         \o Quoted(<<"Grain">>) \o <<"]", ",">>
    \o Quoted(<<"colorPalette">>) \o <<":", "[">> \o Quoted(<<"Black">>) \o <<"]", ",">>
    \o Quoted(<<"composition">>) \o <<":", "[", "]", ",">>
    \o Quoted(<<"mood">>) \o <<":">> \o Quoted(<<"Moody">>) \o <<",">>
    \o Quoted(<<"creativePrompt">>) \o <<":">> \o Quoted(<<"rain", " ", "at", " ", "night">>)
    \o <<"}", "\n">>
\* response.text of the analysis call
AnalysisTexts == {AnalysisJson, <<"oops">>}

(* --------------------------- geminiService ----------------------------- *)
\* getAi throws: no handle yet and no API_KEY
getAiThrows == ai = <<>> /\ ~apiKey

\* faulty variant of getAi: a client is constructed for every call
getAi_Eager ==
  /\ ai' = IF apiKey THEN <<constructed + 1>> ELSE ai
  /\ constructed' = IF apiKey THEN constructed + 1 ELSE constructed
  /\ apiKey' = apiKey

\* getAi: the handle is constructed on first use and kept; the handle is
\* named by the number of its construction
getAi ==
  /\ ai' = IF ai = <<>> /\ apiKey THEN <<constructed + 1>> ELSE ai
  /\ constructed' = IF ai = <<>> /\ apiKey THEN constructed + 1 ELSE constructed
  /\ apiKey' = apiKey

\* editImageWithGemini: the outbound instruction
modifierString(modifiers) ==
  IF Len(modifiers) > 0
  THEN <<"Apply the following artistic styles and techniques: ">>
         \o join(modifiers, <<", ">>) \o <<".">>
  ELSE <<>>

fullPrompt(prompt, modifiers) ==
  prompt \o <<". ">> \o modifierString(modifiers)
    \o <<" Maintain the core composition of the source image but transform it based on the description.">>

\* editImageWithGemini: the request it sends
EditRequest(data, mime, prompt, modifiers) ==
  [data |-> data, mime |-> mime, prompt |-> prompt, modifiers |-> modifiers,
   text |-> fullPrompt(prompt, modifiers)]

\* editImageWithGemini: its result when parts[0] carries inlineData
EditResult(req, bytes) ==
  [imageUrl |-> DataUrl(<<"image/png">>, bytes), executedPrompt |-> req.text]

\* faulty variant of CreativeTitle: a blank answer is the title
CreativeTitle_NoFallback(text) == trim(text)

\* generateCreativeTitle: response.text?.trim() || "Untitled Masterpiece"
CreativeTitle(text) ==
  IF trim(text) # <<>> THEN trim(text) ELSE <<"Untitled", " ", "Masterpiece">>

\* analyzeImageStyle after generateContent: response.text.trim() on an absent
\* text and JSON.parse on a malformed one both end in an exception
AnalysisThrows(text) == text = <<>> \/ ~JSONparse(trim(text[1])).ok
AnalysisResult(text) == JSONparse(trim(text[1])).val

(* ------------------------------- Init ---------------------------------- *)
NoOp == [op |-> "init", arg |-> <<>>]
NoRet == [op |-> "none", threw |-> FALSE, val |-> JUndefined]

Init ==
  /\ clock = ClockStart
  /\ apiKey \in BOOLEAN
  /\ ai = <<>>
  /\ constructed = 0
  /\ calls = <<>>
  /\ ret = NoRet
  /\ imageUrl = <<>>
  /\ readers = {}
  /\ analysisResult = <<>>
  /\ isLoading = FALSE
  /\ an = <<>>
  /\ userIdea = <<>>
  /\ selectedModifiers = <<>>
  /\ customModifier = <<>>
  /\ generatedHistory = <<>>
  /\ isGenerating = FALSE
  /\ error = <<>>
  /\ gen = <<>>
  /\ download = <<>>
  /\ editingItem = <<>>
  /\ currentImage = <<>>
  /\ inputValue = <<>>
  /\ isProcessing = FALSE
  /\ messages = <<>>
  /\ send = <<>>
  /\ orphans = <<>>
  /\ resultDisplay = "current"
  /\ outputFormat = "txt"
  /\ clipboard = <<>>
  /\ lastOp = NoOp

(* ------------------------------- App ----------------------------------- *)
Op(name, arg) == [op |-> name, arg |-> arg]

\* variables of App that the handlers of the reference image leave alone
studioVars == <<userIdea, selectedModifiers, customModifier, generatedHistory,
                isGenerating, gen, download>>
\* variables no handler of App touches
outsideApp == <<serviceVars, editingItem, editorVars, orphans, displayVars>>

\* the editor, when open, is a modal layer over the whole page (fixed inset-0
\* z-50): the controls of App are operated only while it is closed
PageExposed == editingItem = <<>>

\* the clock advances
Tick ==
  /\ clock < ClockStart + MaxTicks
  /\ clock' = clock + 1
  /\ UNCHANGED lastOp
  /\ UNCHANGED <<clientVars, appVars, outsideApp>>

\* handleImageChange: the uploader shows the drop zone only without an image
handleImageChange(file) ==
  /\ PageExposed
  /\ imageUrl = <<>>
  /\ analysisResult' = <<>>
  /\ error' = <<>>
  /\ readers' = readers \cup {file}
  /\ UNCHANGED lastOp
  /\ UNCHANGED <<clock, clientVars, imageUrl, isLoading, an, studioVars, outsideApp>>

\* reader.onloadend
onloadend(file) ==
  /\ file \in readers
  /\ readers' = readers \ {file}
  /\ imageUrl' = file
  /\ UNCHANGED lastOp
  /\ UNCHANGED <<clock, clientVars, analysisResult, isLoading, an, error,
                 studioVars, outsideApp>>

\* handleReset: the remove button and Clear All are shown only with an image
handleReset ==
  /\ PageExposed
  /\ imageUrl # <<>>
  /\ imageUrl' = <<>>
  /\ analysisResult' = <<>>
  /\ error' = <<>>
  /\ isLoading' = FALSE
  /\ UNCHANGED lastOp
  /\ UNCHANGED <<clock, clientVars, readers, an, studioVars, outsideApp>>

AnalysisFailed == <<"Failed to analyze. Check console.">>

\* handleAnalyzeClick up to its await.  The scan button is rendered only
\* with an image and without a stored analysis, and disabled while isLoading.
handleAnalyzeClick ==
  /\ PageExposed
  /\ ~isLoading
  /\ analysisResult = <<>>
  /\ IF imageUrl = <<>>
     THEN /\ error' = <<"Please upload an image first.">>
          /\ lastOp' = Op("analyzeRejected", <<>>)
          /\ UNCHANGED <<clientVars, analysisResult, isLoading, an>>
     ELSE IF getAiThrows
     THEN /\ error' = AnalysisFailed
          /\ lastOp' = Op("analyzeFailed", <<"client">>)
          /\ UNCHANGED <<clientVars, analysisResult, isLoading, an>>
     ELSE /\ Len(an) < MaxAnalyses
          /\ getAi
          /\ isLoading' = TRUE
          /\ error' = <<>>
          /\ analysisResult' = <<>>
          /\ an' = Append(an, [data |-> base64Data(imageUrl),
                               mime |-> mimeType(imageUrl)])
          /\ lastOp' = Op("analyze", <<>>)
  /\ UNCHANGED <<clock, imageUrl, readers, studioVars, outsideApp>>

\* analyzeImageStyle returns or throws after its remote call answered
analyzeReturns(i, text) ==
  /\ i \in 1..Len(an)
  /\ an' = SubSeq(an, 1, i - 1) \o SubSeq(an, i + 1, Len(an))
  /\ isLoading' = FALSE
  /\ IF AnalysisThrows(text)
     THEN /\ error' = AnalysisFailed
          /\ lastOp' = Op("analyzeFailed", <<"response">>)
          /\ UNCHANGED analysisResult
     ELSE /\ analysisResult' = IF Truthy(AnalysisResult(text))
                               THEN <<AnalysisResult(text)>> ELSE <<>>
          /\ lastOp' = Op("analyzed", <<>>)
          /\ UNCHANGED error
  /\ UNCHANGED <<clock, clientVars, imageUrl, readers, studioVars, outsideApp>>

\* faulty variant of analyzeThrows: the request is sent again
analyzeThrows_Retry(i) ==
  /\ i \in 1..Len(an)
  /\ lastOp.op # "analyzeRetried"
  /\ lastOp' = Op("analyzeRetried", <<>>)
  /\ UNCHANGED <<clock, clientVars, imageUrl, readers, analysisResult,
                 isLoading, an, error, studioVars, outsideApp>>

\* the remote call of analyzeImageStyle throws: catch and finally
analyzeThrows(i) ==
  /\ i \in 1..Len(an)
  /\ an' = SubSeq(an, 1, i - 1) \o SubSeq(an, i + 1, Len(an))
  /\ isLoading' = FALSE
  /\ error' = AnalysisFailed
  /\ lastOp' = Op("analyzeFailed", <<"remote">>)
  /\ UNCHANGED <<clock, clientVars, imageUrl, readers, analysisResult,
                 studioVars, outsideApp>>

\* variables of App that the handlers of the studio inputs leave alone
pipelineVars == <<imageUrl, readers, analysisResult, isLoading, an,
                  generatedHistory, isGenerating, error, gen, download>>

\* the idea textarea's onChange, and its clear button
setUserIdea(text) ==
  /\ PageExposed
  /\ text # userIdea
  /\ userIdea' = text
  /\ UNCHANGED lastOp
  /\ UNCHANGED <<clock, clientVars, selectedModifiers, customModifier,
                 pipelineVars, outsideApp>>

includes(xs, x) == \E i \in 1..Len(xs) : xs[i] = x

\* prev.filter(m => m !== mod)
RECURSIVE without(_, _)
without(xs, x) ==
  IF xs = <<>> THEN <<>>
  ELSE IF Head(xs) = x THEN without(Tail(xs), x)
  ELSE <<Head(xs)>> \o without(Tail(xs), x)

\* a preset button, or the remove button of a selected modifier
toggleModifier(mod) ==
  /\ PageExposed
  /\ selectedModifiers' = IF includes(selectedModifiers, mod)
                          THEN without(selectedModifiers, mod)
                          ELSE Append(selectedModifiers, mod)
  /\ UNCHANGED lastOp
  /\ UNCHANGED <<clock, clientVars, userIdea, customModifier, pipelineVars,
                 outsideApp>>

\* the custom style input's onChange
setCustomModifier(text) ==
  /\ PageExposed
  /\ text # customModifier
  /\ customModifier' = text
  /\ UNCHANGED lastOp
  /\ UNCHANGED <<clock, clientVars, userIdea, selectedModifiers, pipelineVars,
                 outsideApp>>

\* faulty variant of addCustomModifier: the text is appended without looking it up
addCustomModifier_NoLookup ==
  /\ PageExposed
  /\ IF trim(customModifier) # <<>>
     THEN /\ selectedModifiers' = Append(selectedModifiers, trim(customModifier))
          /\ customModifier' = <<>>
          /\ lastOp' = Op("modifierAdded", <<>>)
     ELSE /\ lastOp' = Op("modifierIgnored", <<>>)
          /\ UNCHANGED <<selectedModifiers, customModifier>>
  /\ UNCHANGED <<clock, clientVars, userIdea, pipelineVars, outsideApp>>

\* addCustomModifier: Enter in the custom style input, or the plus button
addCustomModifier ==
  /\ PageExposed
  /\ IF trim(customModifier) # <<>>
        /\ ~includes(selectedModifiers, trim(customModifier))
     THEN /\ selectedModifiers' = Append(selectedModifiers, trim(customModifier))
          /\ customModifier' = <<>>
          /\ lastOp' = Op("modifierAdded", <<>>)
     ELSE /\ lastOp' = Op("modifierIgnored", <<>>)
          /\ UNCHANGED <<selectedModifiers, customModifier>>
  /\ UNCHANGED <<clock, clientVars, userIdea, pipelineVars, outsideApp>>

GenerationFailed == <<"Failed to generate image. Please try again.">>

\* variables of App that handleGenerateClick and its continuations leave alone
inputVars == <<imageUrl, readers, analysisResult, isLoading, an, userIdea,
               selectedModifiers, customModifier, download>>

\* faulty variant of handleGenerateClick: no validation of its inputs
handleGenerateClick_NoValidation ==
  /\ PageExposed
  /\ ~isGenerating
  /\ Len(generatedHistory) < MaxHistory
  /\ IF getAiThrows
     THEN /\ error' = GenerationFailed
          /\ lastOp' = Op("generateFailed", <<"client">>)
          /\ UNCHANGED <<clientVars, isGenerating, gen>>
     ELSE /\ getAi
          /\ isGenerating' = TRUE
          /\ lastOp' = Op("generate", <<>>)
          /\ error' = <<>>
          /\ gen' = <<[pc |-> "image",
                       userIdea |-> userIdea,
                       selectedModifiers |-> selectedModifiers,
                       analysisResult |-> analysisResult,
                       req |-> EditRequest(IF imageUrl = <<>> THEN <<>>
                                           ELSE base64Data(imageUrl),
                                           IF imageUrl = <<>> THEN <<>>
                                           ELSE mimeType(imageUrl),
                                           userIdea, selectedModifiers),
                       generatedImgUrl |-> <<>>]>>
  /\ UNCHANGED <<clock, inputVars, generatedHistory, outsideApp>>

\* faulty variant of handleGenerateClick: the render button stays enabled
\* while a render is in progress
handleGenerateClick_NoLock ==
  /\ PageExposed
  /\ Len(generatedHistory) < MaxHistory
  /\ IF imageUrl = <<>>
     THEN /\ error' = <<"Please upload a reference image.">>
          /\ lastOp' = Op("generateRejected", <<>>)
          /\ UNCHANGED <<clientVars, isGenerating, gen>>
     ELSE IF userIdea = <<>> /\ Len(selectedModifiers) = 0
     THEN /\ error' = <<"Please enter an idea or select styles.">>
          /\ lastOp' = Op("generateRejected", <<>>)
          /\ UNCHANGED <<clientVars, isGenerating, gen>>
     ELSE IF getAiThrows
     THEN /\ error' = GenerationFailed
          /\ lastOp' = Op("generateFailed", <<"client">>)
          /\ UNCHANGED <<clientVars, isGenerating, gen>>
     ELSE /\ getAi
          /\ isGenerating' = TRUE
          /\ lastOp' = Op("generate", <<>>)
          /\ error' = <<>>
          /\ gen' = <<[pc |-> "image",
                       userIdea |-> userIdea,
                       selectedModifiers |-> selectedModifiers,
                       analysisResult |-> analysisResult,
                       req |-> EditRequest(base64Data(imageUrl), mimeType(imageUrl),
                                           userIdea, selectedModifiers),
                       generatedImgUrl |-> <<>>]>>
  /\ UNCHANGED <<clock, inputVars, generatedHistory, outsideApp>>

\* handleGenerateClick up to its first await.  The render button is disabled
\* while isGenerating.  Without a client (getAi throws inside
\* editImageWithGemini) the await ends at once in catch and finally.
handleGenerateClick ==
  /\ PageExposed
  /\ ~isGenerating
  /\ Len(generatedHistory) < MaxHistory
  /\ IF imageUrl = <<>>
     THEN /\ error' = <<"Please upload a reference image.">>
          /\ lastOp' = Op("generateRejected", <<>>)
          /\ UNCHANGED <<clientVars, isGenerating, gen>>
     ELSE IF userIdea = <<>> /\ Len(selectedModifiers) = 0
     THEN /\ error' = <<"Please enter an idea or select styles.">>
          /\ lastOp' = Op("generateRejected", <<>>)
          /\ UNCHANGED <<clientVars, isGenerating, gen>>
     ELSE IF getAiThrows
     THEN /\ error' = GenerationFailed
          /\ lastOp' = Op("generateFailed", <<"client">>)
          /\ UNCHANGED <<clientVars, isGenerating, gen>>
     ELSE /\ getAi
          /\ isGenerating' = TRUE
          /\ lastOp' = Op("generate", <<>>)
          /\ error' = <<>>
          /\ gen' = <<[pc |-> "image",
                       userIdea |-> userIdea,
                       selectedModifiers |-> selectedModifiers,
                       analysisResult |-> analysisResult,
                       req |-> EditRequest(base64Data(imageUrl), mimeType(imageUrl),
                                           userIdea, selectedModifiers),
                       generatedImgUrl |-> <<>>]>>
  /\ UNCHANGED <<clock, inputVars, generatedHistory, outsideApp>>

\* faulty variant of generateImageReturns: the awaited result record itself,
\* not its imageUrl, is taken as the image
generateImageReturns_WholeRecord(bytes) ==
  /\ gen # <<>> /\ gen[1].pc = "image"
  /\ getAi
  /\ gen' = <<[gen[1] EXCEPT !.pc = "title",
                             !.generatedImgUrl = <<"[object Object]">>]>>
  /\ lastOp' = Op("imageReturned", bytes)
  /\ UNCHANGED <<clock, inputVars, generatedHistory, isGenerating, error,
                 outsideApp>>

\* editImageWithGemini returns: continue to the title call, generateCreativeTitle
generateImageReturns(bytes) ==
  /\ gen # <<>> /\ gen[1].pc = "image"
  /\ getAi
  /\ gen' = <<[gen[1] EXCEPT !.pc = "title",
                             !.generatedImgUrl = EditResult(gen[1].req, bytes).imageUrl]>>
  /\ lastOp' = Op("imageReturned", bytes)
  /\ UNCHANGED <<clock, inputVars, generatedHistory, isGenerating, error,
                 outsideApp>>

\* the style context of a render made with a stored analysis
styleCtxThrows(a) ==
  \/ Get(a, <<"mood">>).k # "str"
  \/ Get(a, <<"colorPalette">>).k # "arr"
  \/ Get(a, <<"techniques">>).k # "arr"

\* template literal conversion of a value
RECURSIVE toText(_)
toText(v) ==
  CASE v.k = "str" -> v.s
    [] v.k = "lit" -> v.s
    [] v.k = "undefined" -> <<"undefined">>
    [] v.k = "arr" -> join([i \in 1..Len(v.xs) |-> toText(v.xs[i])], <<",">>)
    [] OTHER -> <<"[object Object]">>

styleCtx(analysis) ==
  IF analysis = <<>> THEN <<>>
  ELSE LET a == analysis[1]
       IN  <<"A", " ">> \o toText(Get(a, <<"style">>))
             \o <<" ", "style", " ", "image", ",", " ", "in", " ", "the", " ",
                  "style", " ", "of", " ">> \o toText(Get(a, <<"artist">>))
             \o <<".", " ", "Featuring", " ">> \o toLowerCase(Get(a, <<"mood">>).s)
             \o <<" ", "tones", ",", " ", "with", " ", "a", " ", "color", " ",
                  "palette", " ", "of", " ">>
             \o join([i \in 1..Len(Get(a, <<"colorPalette">>).xs) |->
                        toText(Get(a, <<"colorPalette">>).xs[i])], <<",", " ">>)
             \o <<".", " ", "Key", " ", "techniques", " ", "include", " ">>
             \o join([i \in 1..Len(Get(a, <<"techniques">>).xs) |->
                        toText(Get(a, <<"techniques">>).xs[i])], <<",", " ">>)
             \o <<".">>

\* the GeneratedItem assembled by handleGenerateClick
newItem(g, title, now) ==
  [id |-> toString(now), imageUrl |-> g.generatedImgUrl, title |-> title,
   prompt |-> g.userIdea, modifiers |-> g.selectedModifiers,
   styleContext |-> styleCtx(g.analysisResult), timestamp |-> now]

\* faulty variant of generateThrows: a failed title call still saves the image
generateThrows_PartialItem ==
  /\ gen # <<>>
  /\ error' = GenerationFailed
  /\ isGenerating' = FALSE
  /\ gen' = <<>>
  /\ generatedHistory' =
       IF gen[1].pc = "title"
       THEN <<newItem(gen[1], <<"Untitled", " ", "Masterpiece">>, clock)>>
              \o generatedHistory
       ELSE generatedHistory
  /\ lastOp' = Op("generateFailed", <<gen[1].pc>>)
  /\ UNCHANGED <<clock, clientVars, inputVars, outsideApp>>

\* faulty variant of generateThrows: after a failed image call the title is still
\* requested
generateThrows_TitleAnyway ==
  /\ gen # <<>>
  /\ IF gen[1].pc = "image"
     THEN /\ gen' = <<[gen[1] EXCEPT !.pc = "title"]>>
          /\ UNCHANGED <<error, isGenerating>>
     ELSE /\ gen' = <<>>
          /\ error' = GenerationFailed
          /\ isGenerating' = FALSE
  /\ lastOp' = Op("generateFailed", <<gen[1].pc>>)
  /\ UNCHANGED <<clock, clientVars, inputVars, generatedHistory, outsideApp>>

\* either remote call of the render throws: catch and finally
generateThrows ==
  /\ gen # <<>>
  /\ error' = GenerationFailed
  /\ isGenerating' = FALSE
  /\ gen' = <<>>
  /\ lastOp' = Op("generateFailed", <<gen[1].pc>>)
  /\ UNCHANGED <<clock, clientVars, inputVars, generatedHistory, outsideApp>>

\* generateCreativeTitle returns: save to history, finally; an analysis
\* without the fields of the style context ends in catch.  lastOp notes the
\* idea the input shows at that moment.
generateTitleReturns(text) ==
  /\ gen # <<>> /\ gen[1].pc = "title"
  /\ isGenerating' = FALSE
  /\ gen' = <<>>
  /\ IF gen[1].analysisResult # <<>> /\ styleCtxThrows(gen[1].analysisResult[1])
     THEN /\ error' = GenerationFailed
          /\ lastOp' = Op("generateFailed", <<"styleCtx">>)
          /\ UNCHANGED generatedHistory
     ELSE /\ generatedHistory' =
               <<newItem(gen[1], CreativeTitle(text), clock)>> \o generatedHistory
          /\ lastOp' = Op("generated", userIdea)
          /\ UNCHANGED error
  /\ UNCHANGED <<clock, clientVars, inputVars, outsideApp>>
(* ------------------------- archive download ---------------------------- *)
\* item.title.replace(/\s+/g, '_')
RECURSIVE replaceWhitespace(_)
replaceWhitespace(s) ==
  IF s = <<>> THEN <<>>
  ELSE IF IsSpace(Head(s)) THEN <<"_">> \o replaceWhitespace(skipWs(s))
  ELSE <<Head(s)>> \o replaceWhitespace(Tail(s))

\* new Date(timestamp).toLocaleString(): a text that names the instant
toLocaleString(timestamp) == <<"Date", "(">> \o toString(timestamp) \o <<")">>

generateLogText(item) ==
  item.title \o <<"\n">> \o toLocaleString(item.timestamp)
    \o <<"\n", "\n", "Prompt:", "\n">> \o item.prompt
    \o <<"\n", "\n", "Styles:", "\n">>
    \o (IF join(item.modifiers, <<",", " ">>) # <<>>
        THEN join(item.modifiers, <<",", " ">>) ELSE <<"None">>)
    \o <<"\n", "\n">>
    \o (IF item.styleContext # <<>>
        THEN <<"Original", " ", "Style", " ", "Context:", "\n">> \o item.styleContext
        ELSE <<>>)

\* the token "%" stands for a character outside the base64 alphabet
Base64Valid(bytes) == \A i \in 1..Len(bytes) : bytes[i] # "%"

\* fetch(item.imageUrl) of a data URL rejects when its payload does not decode
fetchThrows(url) == ~Base64Valid(base64Data(url))

\* faulty variant of logPath: the name of the log is made of the title alone
logPath_NoId(item) ==
  <<"logs/">> \o replaceWhitespace(item.title) \o <<".txt">>

logPath(item) ==
  <<"logs/">> \o replaceWhitespace(item.title) \o <<"_">> \o item.id \o <<".txt">>
imagePath(item) ==
  <<"images/">> \o replaceWhitespace(item.title) \o <<"_">> \o item.id \o <<".png">>

\* folder.file(path, content): a file of the same path is replaced
zipFile(files, path, content) ==
  IF \E i \in 1..Len(files) : files[i].path = path
  THEN [i \in 1..Len(files) |->
          IF files[i].path = path THEN [path |-> path, content |-> content]
          ELSE files[i]]
  ELSE Append(files, [path |-> path, content |-> content])

\* the loop of handleDownloadAllZip over the items
RECURSIVE zipItems(_, _)
zipItems(items, files) ==
  IF items = <<>> THEN files
  ELSE LET item == Head(items)
           withLog == zipFile(files, logPath(item), generateLogText(item))
       IN  zipItems(Tail(items),
                    IF fetchThrows(item.imageUrl) THEN withLog
                    ELSE zipFile(withLog, imagePath(item), base64Data(item.imageUrl)))

\* faulty variant of handleDownloadAllZip: a fetch that fails ends the handler
handleDownloadAllZip_NoCatch ==
  /\ PageExposed
  /\ generatedHistory # <<>>
  /\ IF \E i \in 1..Len(generatedHistory) : fetchThrows(generatedHistory[i].imageUrl)
     THEN /\ lastOp' = Op("downloadFailed", <<>>)
          /\ UNCHANGED download
     ELSE /\ download' = <<[name |-> <<"nano_banana_history_">> \o toString(clock)
                                      \o <<".zip">>,
                            files |-> zipItems(generatedHistory, <<>>)]>>
          /\ lastOp' = Op("download", <<>>)
  /\ UNCHANGED <<clock, clientVars, imageUrl, readers, analysisResult, isLoading,
                 an, userIdea, selectedModifiers, customModifier,
                 generatedHistory, isGenerating, error, gen, outsideApp>>

\* handleDownloadAllZip: the archive of the history the button was clicked on
handleDownloadAllZip ==
  /\ PageExposed
  /\ generatedHistory # <<>>
  /\ download' = <<[name |-> <<"nano_banana_history_">> \o toString(clock)
                               \o <<".zip">>,
                     files |-> zipItems(generatedHistory, <<>>)]>>
  /\ lastOp' = Op("download", <<>>)
  /\ UNCHANGED <<clock, clientVars, imageUrl, readers, analysisResult, isLoading,
                 an, userIdea, selectedModifiers, customModifier,
                 generatedHistory, isGenerating, error, gen, outsideApp>>

AppNext ==
  \/ Tick
  \/ \E f \in RefImages : handleImageChange(f)
  \/ \E f \in RefImages : onloadend(f)
  \/ handleReset
  \/ \E t \in IdeaTexts : setUserIdea(t)
  \/ \E i \in 1..Len(STYLE_PRESETS) : toggleModifier(STYLE_PRESETS[i])
  \/ handleGenerateClick
  \/ \E b \in ImageBytes : generateImageReturns(b)
  \/ generateThrows
  \/ \E t \in TitleTexts : generateTitleReturns(t)

(* ----------------------------- ImageEditor ----------------------------- *)
\* variables no handler of the editor touches
notEditor == <<clock, clientVars, serviceVars, appVars, displayVars>>

\* the first message of the chat, set by the effect on initialItem
initMsg(item, now) ==
  [id |-> <<"init">>, role |-> "model",
   text |-> <<"Editing \"">> \o item.title \o <<"\". What would you like to change?">>,
   imageUrl |-> <<>>, executedPrompt |-> <<>>, timestamp |-> now]

userMsg(userPrompt, now) ==
  [id |-> toString(now), role |-> "user", text |-> userPrompt,
   imageUrl |-> <<>>, executedPrompt |-> <<>>, timestamp |-> now]

\* faulty variant of modelMsg: the message does not record the prompt that was sent
modelMsg_NoPrompt(result, now) ==
  [id |-> toString(now + 1), role |-> "model", text |-> <<>>,
   imageUrl |-> result.imageUrl, executedPrompt |-> <<>>, timestamp |-> now]

modelMsg(result, now) ==
  [id |-> toString(now + 1), role |-> "model", text |-> <<>>,
   imageUrl |-> result.imageUrl, executedPrompt |-> result.executedPrompt,
   timestamp |-> now]

FailureNotice == <<"Sorry, I couldn't generate that edit. Please try again.">>

errorMsg(now) ==
  [id |-> toString(now + 1), role |-> "model", text |-> FailureNotice,
   imageUrl |-> <<>>, executedPrompt |-> <<>>, timestamp |-> now]

\* the continuation of handleSend stands between setCurrentImage and setMessages
MidCommit == send # <<>> /\ send[1].pc = "commit"

\* setEditingItem(item), the Chat Edit button of a history card: the editor
\* is mounted (useState initial values), then its effect on initialItem sets
\* the first message.  The editor is a modal layer over the whole page
\* (fixed inset-0 z-50), so the cards are operated only while it is closed.
OpenEditor(i) ==
  /\ editingItem = <<>>
  /\ i \in 1..Len(generatedHistory)
  /\ editingItem' = <<generatedHistory[i]>>
  /\ currentImage' = generatedHistory[i].imageUrl
  /\ inputValue' = <<>>
  /\ isProcessing' = FALSE
  /\ messages' = <<initMsg(generatedHistory[i], clock)>>
  /\ send' = <<>>
  /\ lastOp' = Op("open", <<>>)
  /\ UNCHANGED <<notEditor, orphans, displayVars>>

\* onClose: setEditingItem(null) unmounts the editor; a pending handleSend
\* keeps running against the unmounted component
CloseEditor ==
  /\ ~MidCommit
  /\ editingItem # <<>>
  /\ send = <<>> \/ Len(orphans) < MaxOrphans
  /\ editingItem' = <<>>
  /\ currentImage' = <<>>
  /\ inputValue' = <<>>
  /\ isProcessing' = FALSE
  /\ messages' = <<>>
  /\ send' = <<>>
  /\ orphans' = IF send = <<>> THEN orphans
                ELSE Append(orphans, editingItem[1].id)
  /\ lastOp' = Op("close", <<>>)
  /\ UNCHANGED <<notEditor>>

\* faulty variant of OrphanCompletes: the continuation writes into the editor that
\* is mounted now
OrphanCompletes_Applies(i, ok) ==
  /\ ~MidCommit
  /\ i \in 1..Len(orphans)
  /\ orphans' = SubSeq(orphans, 1, i - 1) \o SubSeq(orphans, i + 1, Len(orphans))
  /\ messages' = IF editingItem # <<>> /\ ~ok
                 THEN Append(messages, errorMsg(clock)) ELSE messages
  /\ isProcessing' = IF editingItem # <<>> THEN FALSE ELSE isProcessing
  /\ lastOp' = Op("orphanCompleted", orphans[i] \o <<IF ok THEN "ok" ELSE "failed">>)
  /\ UNCHANGED <<notEditor, editingItem, currentImage, inputValue, send>>

\* the request of an unmounted editor completes (ok) or fails (~ok): the
\* continuation of its handleSend calls the state setters of the unmounted
\* component, which React drops; an editor mounted later has its own state
OrphanCompletes(i, ok) ==
  /\ ~MidCommit
  /\ i \in 1..Len(orphans)
  /\ orphans' = SubSeq(orphans, 1, i - 1) \o SubSeq(orphans, i + 1, Len(orphans))
  /\ lastOp' = Op("orphanCompleted", orphans[i] \o <<IF ok THEN "ok" ELSE "failed">>)
  /\ UNCHANGED <<notEditor, editingItem, editorVars>>

\* the input's onChange (the input is disabled while isProcessing) and the
\* clear button
setInputValue(text) ==
  /\ ~MidCommit
  /\ editingItem # <<>>
  /\ ~isProcessing
  /\ text # inputValue
  /\ inputValue' = text
  /\ UNCHANGED <<notEditor, editingItem, currentImage, isProcessing,
                 messages, send, orphans, displayVars, lastOp>>

\* faulty variant of sendRejected: handleSend without its guard
sendRejected_NoGuard == FALSE

\* faulty variant of sendRejected: no submit while a render is running either
sendRejected_GlobalLock == trim(inputValue) = <<>> \/ isProcessing \/ isGenerating

\* handleSend's guard: if (!inputValue.trim() || isProcessing) return
sendRejected == trim(inputValue) = <<>> \/ isProcessing

\* faulty variant of sendBase: the edit starts from the item the editor was opened on
sendBase_Original == editingItem[1].imageUrl

\* the image handleSend passes to editImageWithGemini
sendBase == currentImage

\* handleSend up to its await.  Without a client (getAi throws inside
\* editImageWithGemini) the await ends at once in catch and finally.
handleSend ==
  /\ ~MidCommit
  /\ editingItem # <<>>
  /\ IF sendRejected
     THEN /\ lastOp' = Op("sendIgnored", <<>>)
          /\ UNCHANGED <<clientVars, inputValue, isProcessing, messages, send>>
     ELSE IF getAiThrows
     THEN /\ Len(messages) + 2 <= MaxMessages
          /\ inputValue' = <<>>
          /\ isProcessing' = FALSE
          /\ messages' = messages \o <<userMsg(trim(inputValue), clock),
                                        errorMsg(clock)>>
          /\ lastOp' = Op("sendFailed", <<"client">>)
          /\ UNCHANGED <<clientVars, send>>
     ELSE /\ Len(messages) + 2 <= MaxMessages
          /\ getAi
          /\ inputValue' = <<>>
          /\ isProcessing' = TRUE
          /\ messages' = Append(messages, userMsg(trim(inputValue), clock))
          /\ send' = <<[pc |-> "await",
                        req |-> EditRequest(base64Data(sendBase), mimeType(sendBase),
                                            trim(inputValue), <<>>),
                        result |-> EditResult(EditRequest(<<>>, <<>>, <<>>, <<>>), <<>>)]>>
          /\ lastOp' = Op("send", <<>>)
  /\ UNCHANGED <<clock, serviceVars, appVars, editingItem, currentImage, orphans,
                 displayVars>>

\* editImageWithGemini returns: setCurrentImage(result.imageUrl)
editReturns(bytes) ==
  /\ send # <<>> /\ send[1].pc = "await"
  /\ currentImage' = EditResult(send[1].req, bytes).imageUrl
  /\ send' = <<[send[1] EXCEPT !.pc = "commit",
                               !.result = EditResult(send[1].req, bytes)]>>
  /\ lastOp' = Op("editReturned", <<>>)
  /\ UNCHANGED <<notEditor, editingItem, inputValue, isProcessing,
                 messages, orphans, displayVars>>

\* faulty variant of editCommit: the new version is written back into the history
editCommit_WriteBack ==
  /\ MidCommit
  /\ messages' = Append(messages, modelMsg(send[1].result, clock))
  /\ isProcessing' = FALSE
  /\ send' = <<>>
  /\ generatedHistory' =
       [i \in 1..Len(generatedHistory) |->
          IF generatedHistory[i] = editingItem[1]
          THEN [generatedHistory[i] EXCEPT !.imageUrl = send[1].result.imageUrl]
          ELSE generatedHistory[i]]
  /\ lastOp' = Op("edited", <<>>)
  /\ UNCHANGED <<clock, clientVars, serviceVars, inputVars, isGenerating,
                 error, gen, editingItem, currentImage, inputValue, orphans, displayVars>>

\* ... then setMessages(prev => [...prev, modelMsg]) and finally
editCommit ==
  /\ MidCommit
  /\ messages' = Append(messages, modelMsg(send[1].result, clock))
  /\ isProcessing' = FALSE
  /\ send' = <<>>
  /\ lastOp' = Op("edited", <<>>)
  /\ UNCHANGED <<notEditor, editingItem, currentImage, inputValue, orphans, displayVars>>

\* faulty variant of editThrows: isProcessing is reset on success only
editThrows_StaysBusy ==
  /\ send # <<>> /\ send[1].pc = "await"
  /\ messages' = Append(messages, errorMsg(clock))
  /\ send' = <<>>
  /\ lastOp' = Op("editFailed", <<>>)
  /\ UNCHANGED <<notEditor, editingItem, currentImage, inputValue,
                 isProcessing, orphans, displayVars>>

\* faulty variant of editThrows: the failure notice replaces the user's message
editThrows_Replace ==
  /\ send # <<>> /\ send[1].pc = "await"
  /\ messages' = [messages EXCEPT ![Len(messages)] = errorMsg(clock)]
  /\ isProcessing' = FALSE
  /\ send' = <<>>
  /\ lastOp' = Op("editFailed", <<>>)
  /\ UNCHANGED <<notEditor, editingItem, currentImage, inputValue, orphans, displayVars>>

\* editImageWithGemini throws: catch and finally
editThrows ==
  /\ send # <<>> /\ send[1].pc = "await"
  /\ messages' = Append(messages, errorMsg(clock))
  /\ isProcessing' = FALSE
  /\ send' = <<>>
  /\ lastOp' = Op("editFailed", <<>>)
  /\ UNCHANGED <<notEditor, editingItem, currentImage, inputValue, orphans, displayVars>>

\* faulty variant of selectVersion: a click on the active version goes back to the
\* item's own image
selectVersion_Toggle(k) ==
  /\ ~MidCommit
  /\ k \in 1..Len(messages)
  /\ messages[k].imageUrl # <<>>
  /\ currentImage' = IF currentImage = messages[k].imageUrl
                     THEN editingItem[1].imageUrl
                     ELSE messages[k].imageUrl
  /\ lastOp' = Op("select", toString(k))
  /\ UNCHANGED <<notEditor, editingItem, inputValue, isProcessing,
                 messages, send, orphans, displayVars>>

\* faulty variant of selectVersion: the pending request is moved to the selected image
selectVersion_Rebase(k) ==
  /\ ~MidCommit
  /\ k \in 1..Len(messages)
  /\ messages[k].imageUrl # <<>>
  /\ currentImage' = messages[k].imageUrl
  /\ send' = IF send = <<>> THEN send
             ELSE <<[send[1] EXCEPT !.req.data = base64Data(messages[k].imageUrl),
                                    !.req.mime = mimeType(messages[k].imageUrl)]>>
  /\ lastOp' = Op("select", toString(k))
  /\ UNCHANGED <<notEditor, editingItem, inputValue, isProcessing,
                 messages, orphans, displayVars>>

\* click on the image of message k: setCurrentImage(msg.imageUrl)
selectVersion(k) ==
  /\ ~MidCommit
  /\ k \in 1..Len(messages)
  /\ messages[k].imageUrl # <<>>
  /\ currentImage' = messages[k].imageUrl
  /\ lastOp' = Op("select", toString(k))
  /\ UNCHANGED <<notEditor, editingItem, inputValue, isProcessing,
                 messages, send, orphans, displayVars>>

(* ------------------ geminiService called on its own -------------------- *)
\* a response of generateContent: its text (<<>> when it has none) and, for
\* each part of the first candidate, its inlineData.data (<<>> when the part
\* has no inlineData)
Response(text, parts) == [text |-> text, parts |-> parts]

StylesJson ==
  <<"{">> \o Quoted(<<"lighting">>) \o <<":", "[">> \o Quoted(<<"rim", " ", "light">>)
    \o <<"]", ",">> \o Quoted(<<"medium">>) \o <<":", "[", "]", ",">>
    \o Quoted(<<"textures">>) \o <<":", "[", "]", ",">>
    \o Quoted(<<"techniques">>) \o <<":", "[">> \o Quoted(<<"Ink">>) \o <<"]", ",">>
    \o Quoted(<<"vibe">>) \o <<":", "[", "]", "}">>

\* texts the remote model can answer with
ResponseTexts ==
  {<<>>, <<<<"oops">>>>, <<<<"{", "}">>>>, <<<<" ", "Neon", " ", "Rain">>>>,
   <<StylesJson>>, <<AnalysisJson>>}
\* parts the remote model can answer with
ResponseParts == {<<>>, <<<<<<"b1">>>>>>, <<<<>>, <<<<"b2">>>>>>}
ServiceResponses == {Response(t, p) : t \in ResponseTexts, p \in ResponseParts}

Threw(op, message) == [op |-> op, threw |-> TRUE, val |-> JStr(message)]
Returned(op, v) == [op |-> op, threw |-> FALSE, val |-> v]

\* a service operation up to its await of generateContent: getAi, then the
\* request is sent
serviceCall(op, req) ==
  /\ IF getAiThrows
     THEN /\ ret' = Threw(op, <<"API_KEY environment variable not set">>)
          /\ UNCHANGED <<clientVars, calls>>
     ELSE /\ getAi
          /\ calls' = Append(calls, [op |-> op, req |-> req])
          /\ UNCHANGED ret
  /\ UNCHANGED <<clock, appVars, editingItem, editorVars, orphans, displayVars, lastOp>>

analyzeImageStyle(base64ImageData, mime) ==
  /\ Len(calls) < MaxCalls
  /\ serviceCall("analyzeImageStyle",
                 [data |-> base64ImageData, mime |-> mime, prompt |-> <<>>,
                  modifiers |-> <<>>,
                  text |-> <<"Analyze this image and generate a creative art prompt for it.">>])

editImageWithGemini(base64ImageData, mime, prompt, modifiers) ==
  /\ Len(calls) < MaxCalls
  /\ serviceCall("editImageWithGemini",
                 EditRequest(base64ImageData, mime, prompt, modifiers))

generateCreativeTitle(prompt, modifiers) ==
  /\ Len(calls) < MaxCalls
  /\ serviceCall("generateCreativeTitle",
                 [data |-> <<>>, mime |-> <<>>, prompt |-> prompt,
                  modifiers |-> modifiers,
                  text |-> <<"Generate a short, punchy, creative title (maximum 5 words) for an artwork created with this description: ">>
                             \o Quoted(<<"Prompt: ">> \o prompt \o <<", Styles: ">>
                                         \o join(modifiers, <<", ">>))
                             \o <<". Return ONLY the title, no quotes.">>])

extractStylesFromText(promptText) ==
  /\ Len(calls) < MaxCalls
  /\ serviceCall("extractStylesFromText",
                 [data |-> <<>>, mime |-> <<>>, prompt |-> promptText,
                  modifiers |-> <<>>,
                  text |-> <<"Extract the style DNA from this prompt: ">>
                             \o Quoted(promptText)])

\* the value extractStylesFromText returns from its catch
EmptyStyles ==
  JObj(<<JMem(<<"lighting">>, JArr(<<>>)), JMem(<<"medium">>, JArr(<<>>)),
         JMem(<<"textures">>, JArr(<<>>)), JMem(<<"techniques">>, JArr(<<>>)),
         JMem(<<"vibe">>, JArr(<<>>))>>)

TypeErrorOfUndefined == <<"Cannot read properties of undefined">>

\* what a service operation does with the response of generateContent
AfterResponse(call, response) ==
  CASE call.op = "analyzeImageStyle" ->
         IF response.text = <<>>
         THEN Threw(call.op, TypeErrorOfUndefined)
         ELSE IF AnalysisThrows(response.text)
         THEN Threw(call.op, <<"Received an invalid format from the API.">>)
         ELSE Returned(call.op, AnalysisResult(response.text))
    [] call.op = "editImageWithGemini" ->
         IF Len(response.parts) >= 1 /\ response.parts[1] # <<>>
         THEN Returned(call.op,
                JObj(<<JMem(<<"imageUrl">>,
                            JStr(EditResult(call.req, response.parts[1][1]).imageUrl)),
                       JMem(<<"executedPrompt">>,
                            JStr(EditResult(call.req, response.parts[1][1]).executedPrompt))>>))
         ELSE Threw(call.op, <<"No image generated.">>)
    [] call.op = "generateCreativeTitle" ->
         Returned(call.op,
                  JStr(CreativeTitle(IF response.text = <<>> THEN <<>>
                                     ELSE response.text[1])))
    [] call.op = "extractStylesFromText" ->
         IF response.text = <<>>
         THEN Threw(call.op, TypeErrorOfUndefined)
         ELSE IF JSONparse(trim(response.text[1])).ok
         THEN Returned(call.op, JSONparse(trim(response.text[1])).val)
         ELSE Returned(call.op, EmptyStyles)

\* generateContent answers call i: the operation returns or throws
generateContentReturns(i, response) ==
  /\ i \in 1..Len(calls)
  /\ calls' = SubSeq(calls, 1, i - 1) \o SubSeq(calls, i + 1, Len(calls))
  /\ ret' = AfterResponse(calls[i], response)
  /\ UNCHANGED <<clock, clientVars, appVars, editingItem, editorVars, orphans, displayVars,
                 lastOp>>

\* generateContent of call i throws: none of the operations catches it
generateContentThrows(i) ==
  /\ i \in 1..Len(calls)
  /\ calls' = SubSeq(calls, 1, i - 1) \o SubSeq(calls, i + 1, Len(calls))
  /\ ret' = Threw(calls[i].op, <<"generateContent failed">>)
  /\ UNCHANGED <<clock, clientVars, appVars, editingItem, editorVars, orphans, displayVars,
                 lastOp>>

ServiceNext ==
  \/ analyzeImageStyle(<<"r1">>, <<"image/jpeg">>)
  \/ \E m \in {<<>>, <<<<"Noir">>>>} :
       editImageWithGemini(<<"r1">>, <<"image/jpeg">>, <<"city">>, m)
  \/ generateCreativeTitle(<<"city">>, <<<<"Noir">>>>)
  \/ extractStylesFromText(<<"rain", " ", "at", " ", "night">>)
  \/ \E i \in 1..MaxCalls, r \in ServiceResponses : generateContentReturns(i, r)
  \/ \E i \in 1..MaxCalls : generateContentThrows(i)

(* ---------------------------- ResultDisplay ---------------------------- *)
\* Array.prototype.join of an array value: null and undefined elements give
\* the empty string
joinValue(v, sep) ==
  join([i \in 1..Len(v.xs) |->
          IF v.xs[i].k = "undefined" \/ v.xs[i] = JNull THEN <<>>
          ELSE toText(v.xs[i])], sep)

\* array.map(t => `"${t}"`).join(', ')
quotedItems(v) ==
  join([i \in 1..Len(v.xs) |-> Quoted(toText(v.xs[i]))], <<",", " ">>)

\* formatOutput of the first ResultDisplay (ResultDisplay.tsx): plainText is
\* computed for every format
formatOutputEarlyThrows(result, format) ==
  \/ Get(result, <<"techniques">>).k # "arr"
  \/ Get(result, <<"colorPalette">>).k # "arr"
  \/ Get(result, <<"composition">>).k # "arr"
  \/ format = "txt" /\ Get(result, <<"mood">>).k # "str"

formatOutputEarly(result, format) ==
  CASE format = "json" -> JSONstringify(result)
    [] format = "toml" ->
         <<"style", " ", "=", " ">> \o Quoted(toText(Get(result, <<"style">>)))
           \o <<"\n", "artist", " ", "=", " ">>
           \o Quoted(toText(Get(result, <<"artist">>)))
           \o <<"\n", "techniques", " ", "=", " ", "[">>
           \o quotedItems(Get(result, <<"techniques">>))
           \o <<"]", "\n", "colorPalette", " ", "=", " ", "[">>
           \o quotedItems(Get(result, <<"colorPalette">>))
           \o <<"]", "\n", "composition", " ", "=", " ", "[">>
           \o quotedItems(Get(result, <<"composition">>))
           \o <<"]", "\n", "mood", " ", "=", " ">>
           \o Quoted(toText(Get(result, <<"mood">>)))
    [] OTHER ->
         <<"A", " ">> \o toText(Get(result, <<"style">>))
           \o <<" ", "style", " ", "image", ",", " ", "in", " ", "the", " ",
                "style", " ", "of", " ">> \o toText(Get(result, <<"artist">>))
           \o <<".", " ", "Featuring", " ">>
           \o toLowerCase(Get(result, <<"mood">>).s)
           \o <<" ", "tones", ",", " ", "with", " ", "a", " ", "color", " ",
                "palette", " ", "of", " ">>
           \o joinValue(Get(result, <<"colorPalette">>), <<",", " ">>)
           \o <<".", " ", "Key", " ", "techniques", " ", "include", " ">>
           \o joinValue(Get(result, <<"techniques">>), <<",", " ">>)
           \o <<",", " ", "and", " ", "a", " ", "composition", " ",
                "characterized", " ", "by", " ">>
           \o joinValue(Get(result, <<"composition">>), <<",", " ">>)
           \o <<".">>

\* formatOutput of the later ResultDisplay (the second component of
\* Spinner.tsx), which leads with creativePrompt
formatOutputThrows(result, format) ==
  CASE format = "json" -> FALSE
    [] format = "toml" -> \/ Get(result, <<"techniques">>).k # "arr"
                          \/ Get(result, <<"colorPalette">>).k # "arr"
                          \/ Get(result, <<"composition">>).k # "arr"
    [] OTHER -> Get(result, <<"techniques">>).k # "arr"

formatOutput(result, format) ==
  CASE format = "json" -> JSONstringify(result)
    [] format = "toml" ->
         <<"style", " ", "=", " ">> \o Quoted(toText(Get(result, <<"style">>)))
           \o <<"\n", "artist", " ", "=", " ">>
           \o Quoted(toText(Get(result, <<"artist">>)))
           \o <<"\n", "creative_prompt", " ", "=", " ", "\"", "\"", "\"">>
           \o toText(Get(result, <<"creativePrompt">>))
           \o <<"\"", "\"", "\"", "\n", "techniques", " ", "=", " ", "[">>
           \o quotedItems(Get(result, <<"techniques">>))
           \o <<"]", "\n", "colorPalette", " ", "=", " ", "[">>
           \o quotedItems(Get(result, <<"colorPalette">>))
           \o <<"]", "\n", "composition", " ", "=", " ", "[">>
           \o quotedItems(Get(result, <<"composition">>))
           \o <<"]", "\n", "mood", " ", "=", " ">>
           \o Quoted(toText(Get(result, <<"mood">>)))
    [] OTHER ->
         toText(Get(result, <<"creativePrompt">>))
           \o <<"\n", "\n", "--", " ", "Metadata", " ", "--", "\n", "Style:", " ">>
           \o toText(Get(result, <<"style">>))
           \o <<"\n", "Artist:", " ">> \o toText(Get(result, <<"artist">>))
           \o <<"\n", "Techniques:", " ">>
           \o joinValue(Get(result, <<"techniques">>), <<",", " ">>)
           \o <<"\n", "Mood:", " ">> \o toText(Get(result, <<"mood">>))

\* the memo of the component of the build
displayThrows ==
  IF resultDisplay = "early" THEN formatOutputEarlyThrows(analysisResult[1], outputFormat)
  ELSE formatOutputThrows(analysisResult[1], outputFormat)
displayOutput ==
  IF resultDisplay = "early" THEN formatOutputEarly(analysisResult[1], outputFormat)
  ELSE formatOutput(analysisResult[1], outputFormat)

\* ResultDisplay is rendered while an analysis is stored
displayShown == PageExposed /\ analysisResult # <<>> /\ ~displayThrows

\* the format buttons
setOutputFormat(format) ==
  /\ displayShown
  /\ format # outputFormat
  /\ outputFormat' = format
  /\ UNCHANGED <<clock, clientVars, serviceVars, appVars, editingItem,
                 editorVars, resultDisplay, clipboard, orphans, lastOp>>

\* handleCopy: navigator.clipboard.writeText(formatOutput)
handleCopy ==
  /\ displayShown
  /\ clipboard' = <<displayOutput>>
  /\ lastOp' = Op("copied", <<outputFormat>>)
  /\ UNCHANGED <<clock, clientVars, serviceVars, appVars, editingItem,
                 editorVars, resultDisplay, outputFormat, orphans>>

(* --------- the edit session over a history made by the renders --------- *)
Item1 ==
  newItem([userIdea |-> <<"city">>, selectedModifiers |-> <<>>,
           analysisResult |-> <<>>,
           generatedImgUrl |-> DataUrl(<<"image/png">>, <<"b1">>)],
          CreativeTitle(<<"Neon", " ", "Rain">>), ClockStart)

Item2 ==
  newItem([userIdea |-> <<"city">>, selectedModifiers |-> <<<<"Noir">>>>,
           analysisResult |-> <<>>,
           generatedImgUrl |-> DataUrl(<<"image/png">>, <<"b2">>)],
          CreativeTitle(<<" ">>), ClockStart + 1)

\* the App with its client constructed, a reference image loaded and nothing
\* in progress
Settled ==
  /\ apiKey = TRUE
  /\ ai = <<1>>
  /\ constructed = 1
  /\ calls = <<>>
  /\ ret = NoRet
  /\ imageUrl = DataUrl(<<"image/jpeg">>, <<"r1">>)
  /\ readers = {}
  /\ analysisResult = <<>>
  /\ isLoading = FALSE
  /\ an = <<>>
  /\ userIdea = <<"city">>
  /\ customModifier = <<>>
  /\ isGenerating = FALSE
  /\ error = <<>>
  /\ gen = <<>>
  /\ download = <<>>
  /\ editingItem = <<>>
  /\ currentImage = <<>>
  /\ inputValue = <<>>
  /\ isProcessing = FALSE
  /\ messages = <<>>
  /\ send = <<>>
  /\ orphans = <<>>
  /\ resultDisplay = "current"
  /\ outputFormat = "txt"
  /\ clipboard = <<>>

\* the App after two renders, before any editor was opened
AfterRenders ==
  /\ Settled
  /\ clock = ClockStart + 1
  /\ selectedModifiers = <<<<"Noir">>>>
  /\ generatedHistory = <<Item2, Item1>>

EditInit == AfterRenders /\ lastOp = NoOp

EditTick ==
  /\ clock < ClockStart + 1 + MaxTicks
  /\ clock' = clock + 1
  /\ UNCHANGED <<clientVars, serviceVars, appVars, editingItem, editorVars,
                 orphans, displayVars, lastOp>>

Next ==
  \/ EditTick
  \/ \E i \in 1..MaxHistory : OpenEditor(i)
  \/ CloseEditor
  \/ \E i \in 1..MaxOrphans, ok \in BOOLEAN : OrphanCompletes(i, ok)
  \/ \E t \in InputTexts : setInputValue(t)
  \/ handleSend
  \/ \E b \in ImageBytes : editReturns(b)
  \/ editCommit
  \/ editThrows
  \/ \E k \in 1..MaxMessages : selectVersion(k)

\* the edit session
Spec == EditInit /\ [][Next]_vars

\* the submits of an edit session and their completions
SessionNext ==
  \/ \E i \in 1..MaxHistory : OpenEditor(i)
  \/ CloseEditor
  \/ \E i \in 1..MaxOrphans, ok \in BOOLEAN : OrphanCompletes(i, ok)
  \/ \E t \in {<<>>, <<"fog">>} : setInputValue(t)
  \/ handleSend
  \/ \E b \in ImageBytes : editReturns(b)
  \/ editCommit
  \/ editThrows

\* the edit session when every remote call is answered or fails in the end,
\* and the continuation of handleSend after its first state update runs
SessionSpec ==
  /\ EditInit
  /\ [][SessionNext]_vars
  /\ WF_vars((\E b \in ImageBytes : editReturns(b)) \/ editThrows)
  /\ WF_vars(editCommit)

\* the App without an editor
RenderSpec == Init /\ [][AppNext]_vars

(* ------------- a render and an edit session side by side --------------- *)
\* the App after its first render
AfterFirstRender ==
  /\ Settled
  /\ clock = ClockStart
  /\ selectedModifiers = <<>>
  /\ generatedHistory = <<Item1>>

ConcurrentInit == AfterFirstRender /\ lastOp = NoOp

ConcurrentNext ==
  \/ handleGenerateClick
  \/ generateImageReturns(<<"b2">>)
  \/ generateThrows
  \/ generateTitleReturns(<<"Neon", " ", "Rain">>)
  \/ OpenEditor(1)
  \/ CloseEditor
  \/ \E i \in 1..MaxOrphans, ok \in BOOLEAN : OrphanCompletes(i, ok)
  \/ setInputValue(<<"fog">>)
  \/ handleSend
  \/ editReturns(<<"b2">>)
  \/ editCommit
  \/ editThrows

\* a render and an edit session at the same time
ConcurrentSpec == ConcurrentInit /\ [][ConcurrentNext]_vars

(* ------------------- the style inputs of the studio -------------------- *)
\* the App with a reference image loaded and nothing else done
ImageLoaded ==
  /\ clock = ClockStart
  /\ apiKey = TRUE
  /\ ai = <<>>
  /\ constructed = 0
  /\ calls = <<>>
  /\ ret = NoRet
  /\ imageUrl = DataUrl(<<"image/jpeg">>, <<"r1">>)
  /\ readers = {}
  /\ analysisResult = <<>>
  /\ isLoading = FALSE
  /\ an = <<>>
  /\ userIdea = <<>>
  /\ selectedModifiers = <<>>
  /\ customModifier = <<>>
  /\ generatedHistory = <<>>
  /\ isGenerating = FALSE
  /\ error = <<>>
  /\ gen = <<>>
  /\ download = <<>>
  /\ editingItem = <<>>
  /\ currentImage = <<>>
  /\ inputValue = <<>>
  /\ isProcessing = FALSE
  /\ messages = <<>>
  /\ send = <<>>
  /\ orphans = <<>>
  /\ resultDisplay = "current"
  /\ outputFormat = "txt"
  /\ clipboard = <<>>

StudioInit == ImageLoaded /\ lastOp = NoOp

StudioNext ==
  \/ \E i \in 1..Len(STYLE_PRESETS) : toggleModifier(STYLE_PRESETS[i])
  \/ \E t \in ModifierTexts : setCustomModifier(t)
  \/ addCustomModifier
  \/ handleGenerateClick
  \/ generateImageReturns(<<"b1">>)
  \/ generateTitleReturns(<<"Neon", " ", "Rain">>)

\* presets, custom styles and the renders made with them
StudioSpec == StudioInit /\ [][StudioNext]_vars

(* ----------------- the analysis of the reference image ------------------ *)
AnalysisNext ==
  \/ \E f \in RefImages : handleImageChange(f)
  \/ \E f \in RefImages : onloadend(f)
  \/ handleReset
  \/ handleAnalyzeClick
  \/ \E i \in 1..MaxAnalyses, t \in AnalysisTexts : analyzeReturns(i, <<t>>)
  \/ \E i \in 1..MaxAnalyses : analyzeThrows(i)
  \/ \E t \in IdeaTexts : setUserIdea(t)
  \/ handleGenerateClick
  \/ generateImageReturns(<<"b1">>)
  \/ generateThrows
  \/ generateTitleReturns(<<"Neon", " ", "Rain">>)

\* reference image, analysis and the renders made with them
AnalysisSpec == Init /\ [][AnalysisNext]_vars

(* ------------------------ the service on its own ----------------------- *)
ServiceSpec == Init /\ [][ServiceNext]_vars

(* ------------------ archives of histories of renders ------------------- *)
\* titles and images of the rendered items; the second image has a payload
\* that does not decode
BundleTitles == {<<"Neon", " ", "Rain">>, <<"Neon", "_", "Rain">>}
BundleImages == {DataUrl(<<"image/png">>, <<"b1">>),
                 DataUrl(<<"image/png">>, <<"%">>)}

\* histories of n renders made one clock value after the other
BundleHistories(n) ==
  {[i \in 1..n |->
      newItem([userIdea |-> <<"city">>, selectedModifiers |-> <<>>,
               analysisResult |-> <<>>, generatedImgUrl |-> images[i]],
              titles[i], ClockStart + (n - i))] :
     titles \in [1..n -> BundleTitles], images \in [1..n -> BundleImages]}

BundleInit ==
  /\ Settled
  /\ selectedModifiers = <<>>
  /\ \E n \in 1..MaxBundle :
       /\ generatedHistory \in BundleHistories(n)
       /\ clock = ClockStart + n
  /\ lastOp = NoOp

BundleNext == handleDownloadAllZip

BundleSpec == BundleInit /\ [][BundleNext]_vars

(* ------------------- the display of a stored analysis ------------------ *)
\* the array of the strings of a sequence of texts
JStrings(texts) == JArr([i \in 1..Len(texts) |-> JStr(texts[i])])

\* values of the fields of an analysis; <<>> as creativePrompt is the field
\* left out, <<<<>>>> the empty string
StyleTexts == {<<"Noir">>, <<"Art", " ", "\"", "Deco", "\"">>}
MoodTexts == {<<"Moody">>, <<>>}
TechniqueLists == {<<>>, <<<<"Ink">>>>, <<<<"Ink">>, <<"dry", "\\", "wet">>>>}
PaletteLists == {<<>>, <<<<"Black">>>>}
CompositionLists == {<<>>, <<<<"low", " ", "angle">>>>}
CreativePrompts == {<<>>, <<<<>>>>, <<<<"rain", "\n", "at", " ", "night">>>>}

\* an analysis as analyzeImageStyle returns it, with or without creativePrompt
AnalysisItem(style, techniques, palette, composition, mood, creative) ==
  JObj(<<JMem(<<"style">>, JStr(style)),
         JMem(<<"artist">>, JStr(<<"Saul", " ", "Leiter">>)),
         JMem(<<"techniques">>, JStrings(techniques)),
         JMem(<<"colorPalette">>, JStrings(palette)),
         JMem(<<"composition">>, JStrings(composition)),
         JMem(<<"mood">>, JStr(mood))>>
       \o IF creative = <<>> THEN <<>>
          ELSE <<JMem(<<"creativePrompt">>, JStr(creative[1]))>>)

AnalysisItems ==
  {AnalysisItem(s, t, p, c, m, cp) :
     s \in StyleTexts, t \in TechniqueLists, p \in PaletteLists,
     c \in CompositionLists, m \in MoodTexts, cp \in CreativePrompts}

\* an analysis of the reference image is stored and displayed, by either
\* version of ResultDisplay
FormatInit ==
  /\ clock = ClockStart
  /\ apiKey = TRUE
  /\ ai = <<1>>
  /\ constructed = 1
  /\ calls = <<>>
  /\ ret = NoRet
  /\ imageUrl = DataUrl(<<"image/jpeg">>, <<"r1">>)
  /\ readers = {}
  /\ \E a \in AnalysisItems : analysisResult = <<a>>
  /\ isLoading = FALSE
  /\ an = <<>>
  /\ userIdea = <<>>
  /\ selectedModifiers = <<>>
  /\ customModifier = <<>>
  /\ generatedHistory = <<>>
  /\ isGenerating = FALSE
  /\ error = <<>>
  /\ gen = <<>>
  /\ download = <<>>
  /\ editingItem = <<>>
  /\ currentImage = <<>>
  /\ inputValue = <<>>
  /\ isProcessing = FALSE
  /\ messages = <<>>
  /\ send = <<>>
  /\ orphans = <<>>
  /\ resultDisplay \in {"early", "current"}
  /\ outputFormat = "txt"
  /\ clipboard = <<>>
  /\ lastOp = Op("analyzed", <<>>)

FormatNext ==
  \/ \E f \in {"txt", "json", "toml"} : setOutputFormat(f)
  \/ handleCopy

FormatSpec == FormatInit /\ [][FormatNext]_vars

(* ======================= properties of the edit session ================ *)
IsPrefix(xs, ys) == Len(xs) <= Len(ys) /\ SubSeq(ys, 1, Len(xs)) = xs

\* the image a request was sent with
RequestImage(req) == DataUrl(req.mime, req.data)

\* images carried by the model messages of the log
LogImages == {messages[k].imageUrl : k \in {j \in 1..Len(messages) :
                 messages[j].role = "model" /\ messages[j].imageUrl # <<>>}}

UserMessages == {k \in 1..Len(messages) : messages[k].role = "user"}
Responses == {k \in 1..Len(messages) :
                messages[k].role = "model" /\ messages[k].id # <<"init">>}

\* C1: a handleSend issued while a request is outstanding is ignored (no
\* message appended, no remote call started), and the log always holds one
\* model response per user message, plus the user message of the outstanding
\* request: two submits in a row append one user message and one response.
C1_SubmitWhileAwaitingIgnored ==
  /\ [](Cardinality(UserMessages) =
          Cardinality(Responses) + (IF isProcessing THEN 1 ELSE 0))
  /\ [][(handleSend /\ isProcessing) =>
          (messages' = messages /\ send' = send /\ lastOp'.op = "sendIgnored")]_vars

\* a second submit was issued while the first request was outstanding
C1_Witness ==
  /\ lastOp.op = "sendIgnored"
  /\ isProcessing /\ send # <<>>
  /\ Cardinality(UserMessages) = 1

\* C2 (as claimed): currentImage is the image of the item the session was
\* opened on or the image of a model message already in the log.
C2_CurrentImageInLog ==
  editingItem # <<>> =>
    currentImage \in {editingItem[1].imageUrl} \cup LogImages

\* C4: a failed edit appends one model message with the failure notice and no
\* image, keeps currentImage, returns to idle; a non-blank submit in the idle
\* state is accepted and starts a remote call.
C4_FailedEditRecovers ==
  [][/\ editThrows =>
          /\ messages' = Append(messages, messages'[Len(messages')])
          /\ messages'[Len(messages')].role = "model"
          /\ messages'[Len(messages')].text = FailureNotice
          /\ messages'[Len(messages')].imageUrl = <<>>
          /\ currentImage' = currentImage
          /\ ~isProcessing' /\ send' = <<>>
     /\ (handleSend /\ ~isProcessing /\ trim(inputValue) # <<>>) =>
          /\ isProcessing' /\ send' # <<>> /\ send'[1].pc = "await"
          /\ Len(messages') = Len(messages) + 1]_vars

\* a submit was accepted after a failed edit
C4_Witness ==
  /\ lastOp.op = "send"
  /\ send # <<>>
  /\ \E k \in 1..Len(messages) : messages[k].text = FailureNotice

\* C5: a successful edit sets currentImage to the new image, appends one model
\* message carrying that image and the prompt that was sent, and returns to
\* idle.
C5_SuccessfulEdit ==
  [][/\ \A b \in ImageBytes : editReturns(b) =>
          currentImage' = DataUrl(<<"image/png">>, b)
     /\ editCommit =>
          /\ messages' = Append(messages, messages'[Len(messages')])
          /\ messages'[Len(messages')].role = "model"
          /\ messages'[Len(messages')].imageUrl = currentImage'
          /\ messages'[Len(messages')].executedPrompt = send[1].req.text
          /\ send[1].req.text = fullPrompt(send[1].req.prompt, <<>>)
          /\ currentImage' = currentImage
          /\ ~isProcessing' /\ send' = <<>>]_vars

\* an edit succeeded and its image differs from the item's image
C5_Witness ==
  /\ lastOp.op = "edited"
  /\ ~isProcessing
  /\ currentImage # editingItem[1].imageUrl
  /\ messages[Len(messages)].imageUrl = currentImage

\* C6: an accepted submit sends the image that is currentImage at that
\* moment, the trimmed instruction as prompt, and no modifiers.
C6_EditsCurrentImage ==
  [][(handleSend /\ ~sendRejected) =>
        /\ send' # <<>>
        /\ RequestImage(send'[1].req) = currentImage
        /\ send'[1].req.prompt = trim(inputValue)
        /\ send'[1].req.modifiers = <<>>]_vars

\* a request is outstanding whose base is not the item's image, and whose
\* instruction was typed with surrounding blanks
C6_Witness ==
  /\ lastOp.op = "send"
  /\ send # <<>>
  /\ RequestImage(send[1].req) # editingItem[1].imageUrl
  /\ send[1].req.prompt = <<"fog">>

\* C7: selectVersion sets currentImage to the message's image, and a second
\* selectVersion of the same message leaves the session as the first left it.
C7_SelectVersionIdempotent ==
  [][\A k \in 1..MaxMessages :
       selectVersion(k) =>
         /\ currentImage' = messages[k].imageUrl
         /\ lastOp = Op("select", toString(k)) =>
              UNCHANGED <<editingItem, editorVars>>]_vars

\* an older version is active after selectVersion
C7_Witness ==
  /\ lastOp = Op("select", toString(3))
  /\ currentImage = messages[3].imageUrl
  /\ Len(messages) = 5
  /\ messages[5].imageUrl # <<>>
  /\ messages[5].imageUrl # currentImage

\* C8: selectVersion changes currentImage only: the log, the input, the
\* idle/awaiting state and the outstanding request stay as they are.
C8_SelectVersionFrame ==
  [][\A k \in 1..MaxMessages :
       selectVersion(k) =>
         UNCHANGED <<messages, inputValue, isProcessing, send, editingItem,
                     generatedHistory, orphans>>]_vars

\* a version was selected while a request is outstanding: the request still
\* has the base image it was sent with
C8_Witness ==
  /\ lastOp.op = "select"
  /\ isProcessing /\ send # <<>> /\ send[1].pc = "await"
  /\ RequestImage(send[1].req) # currentImage

\* C9: the history list and its items stay as the renders made them, whatever
\* the edit session does.
C9_HistoryUntouched ==
  /\ generatedHistory = <<Item2, Item1>>
  /\ editingItem # <<>> => editingItem[1] \in {Item1, Item2}

\* an edit of the first item succeeded
C9_Witness ==
  /\ lastOp.op = "edited"
  /\ editingItem = <<Item1>>
  /\ currentImage # Item1.imageUrl

\* C10: while the session lasts, each step extends the log at its end.
C10_LogAppendOnly ==
  [][editingItem' # <<>> => IsPrefix(messages, messages')]_vars

\* the log after two edits, one of them failed
C10_Witness ==
  /\ Len(messages) = 5
  /\ \E k \in 1..5 : messages[k].text = FailureNotice
  /\ \E k \in 1..5 : messages[k].imageUrl # <<>>

\* C11: the response to a request whose editor was closed, success or
\* failure, leaves the history and the state of the editor that is open at
\* that time (its item, currentImage, log, input, idle/awaiting state and
\* outstanding request) as they are.
C11_OrphanResponseDiscarded ==
  [][\A i \in 1..MaxOrphans, ok \in BOOLEAN :
       OrphanCompletes(i, ok) =>
         UNCHANGED <<generatedHistory, editingItem, editorVars>>]_vars

\* the abandoned request of the first item failed while a later session on
\* the same item was waiting for its own request
C11_Witness ==
  /\ lastOp = Op("orphanCompleted", Item1.id \o <<"failed">>)
  /\ editingItem = <<Item1>>
  /\ isProcessing /\ send # <<>>
  /\ Len(messages) = 2

(* ==================== properties of the render pipeline ================ *)
\* C3: a render ends either with one new item at the head of the history and
\* the earlier items as they were, or with the failure message and the history
\* as it was; no other step changes the history.
C3_RenderAtomic ==
  [][IF gen # <<>> /\ gen' = <<>>
     THEN \/ generatedHistory' = generatedHistory /\ error' = GenerationFailed
          \/ /\ Len(generatedHistory') = Len(generatedHistory) + 1
             /\ Tail(generatedHistory') = generatedHistory
             /\ error' = <<>>
     ELSE generatedHistory' = generatedHistory]_vars

\* the title call of a render failed when the history already had an item
C3_Witness ==
  /\ lastOp = Op("generateFailed", <<"title">>)
  /\ Len(generatedHistory) = 1
  /\ error = GenerationFailed

\* C13: within a render the title call starts only in the step in which the
\* image call returned an image, a render has one remote call outstanding at
\* a time, and a failed image call ends the render with no title call and no
\* new item.
C13_TitleAfterImage ==
  /\ [](gen # <<>> => (gen[1].pc = "title" <=> gen[1].generatedImgUrl # <<>>))
  /\ [][(gen' # <<>> /\ gen'[1].pc = "title" /\ gen' # gen) =>
          /\ gen # <<>> /\ gen[1].pc = "image"
          /\ \E b \in ImageBytes : generateImageReturns(b)]_vars
  /\ [][(generateThrows /\ gen[1].pc = "image") =>
          (gen' = <<>> /\ generatedHistory' = generatedHistory)]_vars

\* the image call of a second render failed
C13_Witness ==
  /\ lastOp = Op("generateFailed", <<"image">>)
  /\ gen = <<>>
  /\ Len(generatedHistory) = 1

\* C15 (as claimed): the items of the history have pairwise distinct ids.
C15_DistinctIds ==
  \A i, j \in 1..Len(generatedHistory) :
    i # j => generatedHistory[i].id # generatedHistory[j].id

\* C17: a title answer that is empty or blank makes the render end, without
\* failing, with an item titled "Untitled Masterpiece".
C17_TitleFallback ==
  [][\A t \in TitleTexts :
       (generateTitleReturns(t) /\ trim(t) = <<>>) =>
         /\ Len(generatedHistory') = Len(generatedHistory) + 1
         /\ generatedHistory'[1].title = <<"Untitled", " ", "Masterpiece">>
         /\ error' = error /\ error = <<>>
         /\ lastOp'.op = "generated"]_vars

\* a render ended with the default title
C17_Witness ==
  /\ lastOp.op = "generated"
  /\ generatedHistory # <<>>
  /\ generatedHistory[1].title = <<"Untitled", " ", "Masterpiece">>
  /\ generatedHistory[1].modifiers # <<>>

(* ============== properties of a render beside an edit session =========== *)
\* C12: while a render is outstanding, a non-blank submit of an idle session
\* is accepted and starts its own remote call; the completion of the edit
\* (success or failure) applies its effect and leaves the render as it is, and
\* the completion of the render applies its effect and leaves the session as
\* it is, whichever comes first.
C12_NoGlobalLock ==
  [][/\ (handleSend /\ gen # <<>> /\ ~isProcessing /\ trim(inputValue) # <<>>) =>
          /\ send' # <<>> /\ send'[1].pc = "await" /\ isProcessing'
          /\ UNCHANGED <<gen, isGenerating, generatedHistory>>
     /\ (editCommit /\ gen # <<>>) =>
          /\ messages' = Append(messages, messages'[Len(messages')])
          /\ messages'[Len(messages')].imageUrl = currentImage
          /\ ~isProcessing'
          /\ UNCHANGED <<gen, isGenerating, generatedHistory, error>>
     /\ (editThrows /\ gen # <<>>) =>
          /\ messages' = Append(messages, messages'[Len(messages')])
          /\ messages'[Len(messages')].text = FailureNotice
          /\ ~isProcessing'
          /\ UNCHANGED <<gen, isGenerating, generatedHistory, error>>
     /\ \A t \in TitleTexts : (generateTitleReturns(t) /\ send # <<>>) =>
          /\ Tail(generatedHistory') = generatedHistory
          /\ generatedHistory'[1].imageUrl = gen[1].generatedImgUrl
          /\ ~isGenerating'
          /\ UNCHANGED <<editingItem, editorVars>>
     /\ (generateThrows /\ send # <<>>) =>
          /\ error' = GenerationFailed
          /\ ~isGenerating'
          /\ UNCHANGED <<generatedHistory, editingItem, editorVars>>]_vars

\* the render ended with a new item while the request of a session, opened
\* and submitted during the render, was still outstanding
C12_Witness ==
  /\ lastOp.op = "generated"
  /\ Len(generatedHistory) = 2
  /\ editingItem # <<>>
  /\ isProcessing /\ send # <<>> /\ send[1].pc = "await"

(* ================ properties of analysis and validation ================= *)
\* C14: handleGenerateClick without a reference image, or with an empty idea
\* and no modifier, starts no remote call, leaves the history as it is and
\* sets a validation message; handleAnalyzeClick without a reference image
\* starts no remote call.
C14_ValidationNeverAttempts ==
  [][/\ (handleGenerateClick
           /\ (imageUrl = <<>> \/ (userIdea = <<>> /\ selectedModifiers = <<>>))) =>
          /\ gen' = <<>> /\ ~isGenerating'
          /\ UNCHANGED <<generatedHistory, ai, constructed, an>>
          /\ error' = IF imageUrl = <<>>
                      THEN <<"Please upload a reference image.">>
                      ELSE <<"Please enter an idea or select styles.">>
     /\ (handleAnalyzeClick /\ imageUrl = <<>>) =>
          /\ an' = an /\ ~isLoading'
          /\ UNCHANGED <<generatedHistory, ai, constructed, gen, analysisResult>>
          /\ error' = <<"Please upload an image first.">>]_vars

\* after a first render, a render without idea and modifiers was refused
C14_Witness ==
  /\ lastOp.op = "generateRejected"
  /\ imageUrl # <<>> /\ userIdea = <<>>
  /\ error = <<"Please enter an idea or select styles.">>
  /\ Len(generatedHistory) = 1
  /\ gen = <<>>

(* ================== properties of the style inputs ====================== *)
NoDuplicates(xs) == \A i, j \in 1..Len(xs) : i # j => xs[i] # xs[j]

\* C16: the selected modifiers never hold a string twice, nor do the modifiers
\* of an item of the history; addCustomModifier appends the trimmed text at
\* the end, or changes nothing when the text is blank or already selected; a
\* toggle appends at the end or removes, keeping the order of the others.
C16_ModifiersDuplicateFree ==
  /\ [](/\ NoDuplicates(selectedModifiers)
        /\ \A i \in 1..Len(generatedHistory) :
             NoDuplicates(generatedHistory[i].modifiers))
  /\ [][addCustomModifier =>
          IF trim(customModifier) = <<>>
             \/ includes(selectedModifiers, trim(customModifier))
          THEN UNCHANGED <<selectedModifiers, customModifier>>
          ELSE selectedModifiers' =
                 Append(selectedModifiers, trim(customModifier))]_vars
  /\ [][\A i \in 1..Len(STYLE_PRESETS) :
          toggleModifier(STYLE_PRESETS[i]) =>
            IF includes(selectedModifiers, STYLE_PRESETS[i])
            THEN selectedModifiers' = without(selectedModifiers, STYLE_PRESETS[i])
            ELSE selectedModifiers' = Append(selectedModifiers, STYLE_PRESETS[i])]_vars

\* a style that is already selected was added again, after a render with the
\* two selected styles
C16_Witness ==
  /\ lastOp.op = "modifierIgnored"
  /\ trim(customModifier) = <<"Noir">>
  /\ selectedModifiers = <<<<"Grain">>, <<"Noir">>>>
  /\ generatedHistory # <<>>
  /\ generatedHistory[1].modifiers = <<<<"Grain">>, <<"Noir">>>>

(* ===================== properties of the archive ======================== *)
Corrupt(items) == {i \in 1..Len(items) : fetchThrows(items[i].imageUrl)}
LogFiles(files) == {i \in 1..Len(files) : files[i].path[1] = "logs/"}
ImageFiles(files) == {i \in 1..Len(files) : files[i].path[1] = "images/"}

\* C18: for a history with exactly one item whose image does not decode,
\* handleDownloadAllZip ends with an archive that has one log file per item
\* and one image file per item but the bad one.
C18_BundleSkipsBadImage ==
  [][(handleDownloadAllZip /\ Cardinality(Corrupt(generatedHistory)) = 1) =>
       /\ download' # <<>>
       /\ lastOp'.op = "download"
       /\ Cardinality(LogFiles(download'[1].files)) = Len(generatedHistory)
       /\ Cardinality(ImageFiles(download'[1].files)) = Len(generatedHistory) - 1
       /\ \A i \in 1..Len(generatedHistory) :
            /\ \E f \in LogFiles(download'[1].files) :
                 download'[1].files[f].path = logPath(generatedHistory[i])
            /\ i \notin Corrupt(generatedHistory) <=>
                 \E f \in ImageFiles(download'[1].files) :
                   /\ download'[1].files[f].path = imagePath(generatedHistory[i])
                   /\ download'[1].files[f].content =
                        base64Data(generatedHistory[i].imageUrl)]_vars

\* the archive of three items, the second of which has the bad image
C18_Witness ==
  /\ download # <<>>
  /\ Len(generatedHistory) = 3
  /\ Corrupt(generatedHistory) = {2}
  /\ Cardinality(ImageFiles(download[1].files)) = 2
  /\ Cardinality(LogFiles(download[1].files)) = 3

(* ================= properties of the service on its own ================= *)
\* C19: at most one client is constructed, and once there is a handle every
\* later call uses that one; without API_KEY no handle is constructed, no
\* request is sent, and every call ends with an exception.
C19_ClientConstructedOnce ==
  /\ [](constructed <= 1 /\ (ai # <<>> => (apiKey /\ ai = <<1>> /\ constructed = 1)))
  /\ [][ai # <<>> => ai' = ai]_vars
  /\ [](~apiKey => /\ ai = <<>> /\ constructed = 0 /\ calls = <<>>
                   /\ (ret = NoRet \/ ret.threw))

\* two operations are awaiting their answer and a third has returned, all
\* with the one handle
C19_Witness ==
  /\ apiKey /\ ai = <<1>> /\ constructed = 1
  /\ Len(calls) = 2 /\ calls[1].op # calls[2].op
  /\ ret.op \notin {"none", calls[1].op, calls[2].op}
  /\ ~ret.threw

StyleKeys == {<<"lighting">>, <<"medium">>, <<"textures">>, <<"techniques">>,
              <<"vibe">>}

\* a value of the shape of StyleExtractionResult
IsStyleTagSet(v) ==
  /\ v.k = "obj"
  /\ \A key \in StyleKeys :
       /\ Get(v, key).k = "arr"
       /\ \A i \in 1..Len(Get(v, key).xs) : Get(v, key).xs[i].k = "str"

\* the text of the response parses as a StyleExtractionResult
ParsesAsStyles(response) ==
  /\ response.text # <<>>
  /\ JSONparse(trim(response.text[1])).ok
  /\ IsStyleTagSet(JSONparse(trim(response.text[1])).val)

\* C20 (as claimed): whenever the text of the response does not parse as the
\* expected structure, extractStylesFromText returns the value with five
\* empty collections, and does not throw.
C20_ExtractDegrades ==
  [][\A i \in 1..MaxCalls, r \in ServiceResponses :
       (/\ generateContentReturns(i, r)
        /\ calls[i].op = "extractStylesFromText"
        /\ ~ParsesAsStyles(r)) =>
         ret' = Returned("extractStylesFromText", EmptyStyles)]_vars

ImageParts(response) == {k \in 1..Len(response.parts) : response.parts[k] # <<>>}

\* C22 (as claimed): editImageWithGemini returns the image payload of the
\* response, as a data URL, with the prompt it sent, whenever some part of the
\* response carries an image payload, and throws "No image generated." when
\* none does.
C22_ImageFromAnyPart ==
  [][\A i \in 1..MaxCalls, r \in ServiceResponses :
       (/\ generateContentReturns(i, r)
        /\ calls[i].op = "editImageWithGemini") =>
         IF ImageParts(r) = {}
         THEN ret' = Threw("editImageWithGemini", <<"No image generated.">>)
         ELSE /\ ~ret'.threw
              /\ \E k \in ImageParts(r) :
                   Get(ret'.val, <<"imageUrl">>) =
                     JStr(DataUrl(<<"image/png">>, r.parts[k][1]))
              /\ Get(ret'.val, <<"executedPrompt">>) = JStr(calls[i].req.text)]_vars

(* ================= properties of the display of an analysis ============= *)
\* C23: the JSON text that formatOutput gives for an analysis, with or
\* without creativePrompt, parses, and the parsed value is the analysis:
\* the same members in the same order, each string and each array equal.
C23_JsonRoundTrip ==
  [][(handleCopy /\ outputFormat = "json") =>
       /\ JSONparse(clipboard'[1]).ok
       /\ JSONparse(clipboard'[1]).val = analysisResult[1]
       /\ \A key \in {<<"style">>, <<"artist">>, <<"techniques">>,
                      <<"colorPalette">>, <<"composition">>, <<"mood">>,
                      <<"creativePrompt">>} :
            Get(JSONparse(clipboard'[1]).val, key) = Get(analysisResult[1], key)]_vars

\* the JSON text of an analysis without creativePrompt, with a quote in its
\* style and a backslash in a technique, was copied
C23_Witness ==
  /\ lastOp = Op("copied", <<"json">>)
  /\ outputFormat = "json"
  /\ clipboard # <<>>
  /\ Get(analysisResult[1], <<"creativePrompt">>) = JUndefined
  /\ Get(analysisResult[1], <<"style">>) = JStr(<<"Art", " ", "\"", "Deco", "\"">>)
  /\ Len(Get(analysisResult[1], <<"techniques">>).xs) = 2
  /\ JSONparse(clipboard[1]).val = analysisResult[1]

\* the text for an analysis with a creative description, as claimed: the
\* description first, then the block of style, artist, techniques and mood
LeadsWithDescription(out, a) ==
  /\ IsPrefix(toText(Get(a, <<"creativePrompt">>)), out)
  /\ \E i \in 1..Len(out) : out[i] = "Style:"
  /\ \E i \in 1..Len(out) : out[i] = "Artist:"
  /\ \E i \in 1..Len(out) : out[i] = "Techniques:"
  /\ \E i \in 1..Len(out) : out[i] = "Mood:"

\* the text for an analysis without creativePrompt, as claimed: the sentence
\* made of style, artist, lowercased mood, palette, techniques, composition
SynthesizedSentence(a) ==
  <<"A", " ">> \o Get(a, <<"style">>).s
    \o <<" ", "style", " ", "image", ",", " ", "in", " ", "the", " ",
         "style", " ", "of", " ">> \o Get(a, <<"artist">>).s
    \o <<".", " ", "Featuring", " ">> \o toLowerCase(Get(a, <<"mood">>).s)
    \o <<" ", "tones", ",", " ", "with", " ", "a", " ", "color", " ",
         "palette", " ", "of", " ">>
    \o joinValue(Get(a, <<"colorPalette">>), <<",", " ">>)
    \o <<".", " ", "Key", " ", "techniques", " ", "include", " ">>
    \o joinValue(Get(a, <<"techniques">>), <<",", " ">>)
    \o <<",", " ", "and", " ", "a", " ", "composition", " ",
         "characterized", " ", "by", " ">>
    \o joinValue(Get(a, <<"composition">>), <<",", " ">>)
    \o <<".">>

\* C24 (as claimed): the txt output of formatOutput leads with the creative
\* description, followed by the metadata block, when the analysis has a
\* non-empty creativePrompt; when creativePrompt is left out, it is the
\* synthesized sentence and holds no "undefined".
C24_TextBothVariants ==
  [][(handleCopy /\ outputFormat = "txt") =>
       IF Get(analysisResult[1], <<"creativePrompt">>) = JUndefined
       THEN /\ clipboard'[1] = SynthesizedSentence(analysisResult[1])
            /\ \A i \in 1..Len(clipboard'[1]) : clipboard'[1][i] # "undefined"
       ELSE Truthy(Get(analysisResult[1], <<"creativePrompt">>)) =>
              LeadsWithDescription(clipboard'[1], analysisResult[1])]_vars

(* ================== progress of the edit session ======================== *)
\* C25: an accepted submit (the session is awaiting, with n messages in the
\* log) leads to the session being idle with exactly one more message, a
\* model message, unless the editor was closed meanwhile; the log does not
\* change while the session is awaiting, and the step that ends the wait
\* appends exactly one model message.
C25_SubmitAnswered ==
  /\ \A n \in 1..MaxMessages :
       (isProcessing /\ Len(messages) = n) ~>
         (~isProcessing
          /\ (editingItem = <<>>
              \/ (Len(messages) = n + 1 /\ messages[n + 1].role = "model")))
  /\ [][(isProcessing /\ editingItem' # <<>>) =>
          IF isProcessing' THEN messages' = messages
          ELSE /\ messages' = Append(messages, messages'[Len(messages')])
               /\ messages'[Len(messages')].role = "model"]_vars

\* a second submit of a session was answered
C25_Witness ==
  /\ lastOp.op \in {"edited", "editFailed"}
  /\ ~isProcessing /\ send = <<>>
  /\ Len(messages) = 5
  /\ messages[2].role = "user" /\ messages[3].role = "model"
  /\ messages[4].role = "user" /\ messages[5].role = "model"

C27_DistinctMessageIds ==
  \A j, k \in 1..Len(messages) : messages[j].id = messages[k].id => j = k

(* ---------------- the analysis and the image it was made of ------------- *)
\* C28: a stored analysis was made of the image that is loaded now; an answer
\* that arrives after the image was cleared or replaced is not stored.  In
\* particular an analysis is stored only while an image is loaded.
C28_AnalysisOfLoadedImage ==
  analysisResult # <<>> => imageUrl # <<>>

(* --------------------- one render at a time ----------------------------- *)
\* C29: at most one render of the App is outstanding.  isGenerating is true
\* exactly while a render is outstanding, and while it is true no step starts
\* another render: the outstanding one keeps its request and moves only
\* forward, from the image call to the title call to its end.
C29_SingleRender ==
  [][/\ isGenerating <=> gen # <<>>
     /\ isGenerating' <=> gen' # <<>>
     /\ (isGenerating /\ gen' # <<>>) =>
          /\ gen'[1].req = gen[1].req
          /\ gen'[1].userIdea = gen[1].userIdea
          /\ gen'[1].selectedModifiers = gen[1].selectedModifiers
          /\ gen[1].pc = "title" => gen'[1].pc = "title"
          /\ ~(lastOp' # lastOp /\ lastOp'.op = "generate")]_vars

\* a render is outstanding while the page holds everything a further render
\* needs: an image, an idea that differs from the one sent, room in the history
C29_Witness ==
  /\ isGenerating
  /\ gen # <<>>
  /\ PageExposed
  /\ imageUrl # <<>>
  /\ userIdea # <<>>
  /\ userIdea # gen[1].userIdea
  /\ Len(generatedHistory) < MaxHistory

(* -------------------- the paths inside an archive ----------------------- *)
DecimalDigits == {"0", "1", "2", "3", "4", "5", "6", "7", "8", "9"}

\* the ids of the items are made of digits only and pairwise distinct
DistinctDigitIds(items) ==
  /\ \A i \in 1..Len(items) :
       /\ items[i].id # <<>>
       /\ \A k \in 1..Len(items[i].id) : items[i].id[k] \in DecimalDigits
  /\ \A i, j \in 1..Len(items) : items[i].id = items[j].id => i = j

\* C30: for a history whose ids are pairwise distinct and made of digits,
\* handleDownloadAllZip writes for every item the log logs/{title}_{id}.txt
\* and, when its image decodes, the image images/{title}_{id}.png, the title
\* with every run of whitespace replaced by one underscore; all paths of the
\* archive are pairwise distinct and no file replaced another, also when
\* titles are equal or differ only in whitespace and underscores.
C30_BundlePathsDistinct ==
  [][(handleDownloadAllZip /\ DistinctDigitIds(generatedHistory)) =>
       LET files == download'[1].files
           items == generatedHistory
           name(i) == <<"Neon", "_", "Rain", "_">> \o items[i].id
       IN  /\ \A i \in 1..Len(items) : items[i].title \in BundleTitles
           /\ \A i \in 1..Len(items) :
                /\ Cardinality({f \in 1..Len(files) :
                      files[f].path = <<"logs/">> \o name(i) \o <<".txt">>}) = 1
                /\ Cardinality({f \in 1..Len(files) :
                      files[f].path = <<"images/">> \o name(i) \o <<".png">>})
                     = IF i \in Corrupt(items) THEN 0 ELSE 1
           /\ \A f, g \in 1..Len(files) : files[f].path = files[g].path => f = g
           /\ Len(files) = 2 * Len(items) - Cardinality(Corrupt(items))]_vars

\* an archive of three items, two of equal title and one whose title differs
\* from theirs in an underscore for a blank, every image decoded
C30_Witness ==
  /\ download # <<>>
  /\ Len(generatedHistory) = 3
  /\ DistinctDigitIds(generatedHistory)
  /\ generatedHistory[1].title = <<"Neon", " ", "Rain">>
  /\ generatedHistory[2].title = <<"Neon", "_", "Rain">>
  /\ generatedHistory[3].title = generatedHistory[1].title
  /\ Corrupt(generatedHistory) = {}
  /\ Len(download[1].files) = 6

====
